---- MODULE Spec2Model ----
(***************************************************************************)
(* Scene graph of the schemio diagram editor                               *)
(* (src/src/ui/scheme/SchemeContainer.js): the item forest, the derived    *)
(* indexes rebuilt by reindexItems, connector routing, selection, the copy *)
(* buffer and the structural mutations.                                    *)
(*                                                                         *)
(* JavaScript objects are modelled as heap cells.  An item object is the   *)
(* cell items[i]; its id (caller supplied or shortid.generate()) is i, so  *)
(* a reference to an item and the id of an item are the same number, and   *)
(* an object that left the tree stays in the heap because selectedItems,   *)
(* copyBuffer or a stale itemMap may still refer to it.  Connector objects *)
(* live in conns in the same way.  0 stands for null / undefined.          *)
(*                                                                         *)
(* Coordinates are integers and rotations are multiples of 90 degrees, so  *)
(* Math.cos / Math.sin are exact.                                          *)
(***************************************************************************)
EXTENDS Integers, Sequences, FiniteSets, TLC

VARIABLES
    items,              \* heap of item objects: Seq of item records, id = index
    conns,              \* heap of connector objects: Seq of records, id = index
    rootItems,          \* this.scheme.items
    itemMap,            \* this.itemMap: the set of ids it resolves
    itemArray,          \* this._itemArray
    lookup,             \* this._destinationToSourceLookup: [dest id -> Seq(src id)]
    connectorsMap,      \* this.connectorsMap: the set of connector ids it resolves
    revision,           \* this.revision
    selectedItems,      \* this.selectedItems
    selectedConnectors, \* this.selectedConnectors
    copyBuffer,         \* this.copyBuffer
    lastOp,             \* the call that produced this state: name, arguments, result
    geo                 \* inputs and results of the pure geometry functions

vars == <<items, conns, rootItems, itemMap, itemArray, lookup, connectorsMap,
          revision, selectedItems, selectedConnectors, copyBuffer, lastOp, geo>>

(***************************************************************************)
(* Bounds of the model                                                     *)
(***************************************************************************)
MaxItems == 5       \* item objects ever created (addItem, paste clones)
SchemeSize == 2     \* items of a loaded scheme
MaxConns == 1       \* connector objects ever created
MaxReroutes == 3    \* waypoints per connector
MaxPosition == 0    \* largest position argument of remountItemInsideOtherItem

NoId == 0
MissingId == MaxItems + MaxItems + 1   \* an id that no item of the scheme carries
ObjectKey == MissingId + 1             \* the property key an object converts to

(***************************************************************************)
(* Generic helpers on sequences                                            *)
(***************************************************************************)
Range(s) == {s[i] : i \in 1..Len(s)}

Contains(s, e) == \E i \in 1..Len(s) : s[i] = e

\* _.indexOf / _.findIndex, 1-based; 0 when absent
IndexOf(s, e) ==
    IF Contains(s, e) THEN CHOOSE i \in 1..Len(s) : s[i] = e /\ \A j \in 1..(i-1) : s[j] # e
    ELSE 0

\* array.splice(index, 1) with a 1-based index
RemoveAt(s, i) == SubSeq(s, 1, i - 1) \o SubSeq(s, i + 1, Len(s))

\* array.splice(position, 0, e) with a 0-based position >= 0 (clamped to the length)
InsertAt(s, position, e) ==
    LET p == IF position > Len(s) THEN Len(s) ELSE position
    IN SubSeq(s, 1, p) \o <<e>> \o SubSeq(s, p + 1, Len(s))

RECURSIVE FilterSeq(_, _)
FilterSeq(s, keep) ==
    IF s = <<>> THEN <<>>
    ELSE (IF Head(s) \in keep THEN <<Head(s)>> ELSE <<>>) \o FilterSeq(Tail(s), keep)

(***************************************************************************)
(* Geometry kernel                                                         *)
(***************************************************************************)
\* Math.cos(r * Math.PI / 180) for r a multiple of 90
Cos(r) == CASE r % 360 = 0 -> 1 [] r % 360 = 90 -> 0 [] r % 360 = 180 -> -1 [] r % 360 = 270 -> 0

\* Math.sin(r * Math.PI / 180) for r a multiple of 90
Sin(r) == CASE r % 360 = 0 -> 0 [] r % 360 = 90 -> 1 [] r % 360 = 180 -> 0 [] r % 360 = 270 -> -1

zeroTransform == [x |-> 0, y |-> 0, r |-> 0]

\* a child transform that forgets to rotate the parent's offset
childTransformUnrotated(transform, area) ==
    [x |-> transform.x + area.x, y |-> transform.y + area.y, r |-> transform.r + area.r]

\* the transform handed to the children of an item (visitItems, lines 48-52)
childTransform(transform, area) ==
    [x |-> transform.x + area.x * Cos(transform.r) - area.y * Sin(transform.r),
     y |-> transform.y + area.x * Sin(transform.r) + area.y * Cos(transform.r),
     r |-> transform.r + area.r]

worldPointOnItem(x, y, item) ==
    LET transform == item.meta.transform
        cosTA == Cos(transform.r)
        sinTA == Sin(transform.r)
        cosa  == Cos(transform.r + item.area.r)
        sina  == Sin(transform.r + item.area.r)
    IN [x |-> transform.x + item.area.x * cosTA - item.area.y * sinTA + x * cosa - y * sina,
        y |-> transform.y + item.area.x * sinTA + item.area.y * cosTA + x * sina + y * cosa]

\* an inverse that undoes the rotation in the wrong direction
localPointOnItemTurnedBack(x, y, item) ==
    LET transform == item.meta.transform
        cosTA == Cos(transform.r)
        sinTA == Sin(transform.r)
        cosa  == Cos(transform.r + item.area.r)
        sina  == Sin(transform.r + item.area.r)
        tx    == transform.x + item.area.x * cosTA - item.area.y * sinTA
        ty    == transform.y + item.area.x * sinTA + item.area.y * cosTA
    IN [x |-> (x - tx) * cosa - (y - ty) * sina,
        y |-> (y - ty) * cosa + (x - tx) * sina]

localPointOnItem(x, y, item) ==
    LET transform == item.meta.transform
        cosTA == Cos(transform.r)
        sinTA == Sin(transform.r)
        cosa  == Cos(transform.r + item.area.r)
        sina  == Sin(transform.r + item.area.r)
        tx    == transform.x + item.area.x * cosTA - item.area.y * sinTA
        ty    == transform.y + item.area.x * sinTA + item.area.y * cosTA
    IN [x |-> (y - ty) * sina + (x - tx) * cosa,
        y |-> (y - ty) * cosa - (x - tx) * sina]

(***************************************************************************)
(* Objects                                                                 *)
(***************************************************************************)
\* meta of an item that was never indexed: {hovered: false, selected: false};
\* an absent transform reads as _zeroTransform, absent ancestorIds as [],
\* absent parentId as null, absent collapsed as false.
newMeta ==
    [transform |-> zeroTransform, ancestorIds |-> <<>>, parentId |-> NoId,
     selected |-> FALSE, collapsed |-> FALSE, collapseBitMask |-> 0]

\* shape is "none" for an item object without a shape
newItem(area, group, connectors) ==
    [area |-> area, childItems |-> <<>>, connectors |-> connectors,
     group |-> group, shape |-> "none", meta |-> newMeta]

newConnector(itemId, reroutes) ==
    [itemId |-> itemId, reroutes |-> reroutes,
     meta |-> [sourceItemId |-> NoId, points |-> <<>>, selected |-> FALSE]]

\* the container as one value, so that methods can call each other
State ==
    [items |-> items, conns |-> conns, rootItems |-> rootItems, itemMap |-> itemMap,
     itemArray |-> itemArray, lookup |-> lookup, connectorsMap |-> connectorsMap,
     revision |-> revision, selectedItems |-> selectedItems,
     selectedConnectors |-> selectedConnectors, copyBuffer |-> copyBuffer]

findItemById(s, itemId) == IF itemId \in s.itemMap THEN itemId ELSE NoId

findConnectorById(s, connectorId) == IF connectorId \in s.connectorsMap THEN connectorId ELSE NoId

getConnectingSourceItemIds(s, destinationId) ==
    IF destinationId \in DOMAIN s.lookup THEN s.lookup[destinationId] ELSE <<>>

(***************************************************************************)
(* Scene index                                                             *)
(***************************************************************************)
\* The calls callback(item, transform, parentItem, ancestorIds) that
\* visitItems makes, in order.
RECURSIVE visitItems(_, _, _, _, _)
visitItems(its, list, transform, parentItem, ancestorIds) ==
    IF list = <<>> THEN <<>>
    ELSE LET id == Head(list)
         IN <<[id |-> id, transform |-> transform, parentItem |-> parentItem,
               ancestorIds |-> ancestorIds]>>
            \o visitItems(its, its[id].childItems, childTransform(transform, its[id].area),
                          id, Append(ancestorIds, id))
            \o visitItems(its, Tail(list), transform, parentItem, ancestorIds)

\* 32-bit m << 1 (TLC integers are 32 bits wide, so no intermediate value leaves the range)
shiftLeftOne(m) ==
    IF m >= 1073741824 THEN ((m - 1073741824) * 2 - 1073741824) - 1073741824
    ELSE IF m < -1073741824 THEN ((m + 1073741824) * 2 + 1073741824) + 1073741824
    ELSE m * 2

\* 32-bit m << n: the shift count is taken modulo 32
RECURSIVE shiftLeft(_, _)
shiftLeft(m, n) == IF n % 32 = 0 THEN m ELSE shiftLeft(shiftLeftOne(m), (n % 32) - 1)

\* (parentItem.meta.collapseBitMask << ancestorIds.length) | (parentItem.meta.collapsed ? 1 : 0)
collapseBitMask(parentMask, depth, parentCollapsed) ==
    LET shifted == shiftLeft(parentMask, depth)
    IN IF parentCollapsed /\ shifted % 2 = 0 THEN shifted + 1 ELSE shifted

\* the callback of reindexItems applied to the visits in order: item.meta
RECURSIVE indexVisited(_, _)
indexVisited(its, visits) ==
    IF visits = <<>> THEN its
    ELSE LET v == Head(visits)
             mask == IF v.parentItem = NoId THEN 0
                     ELSE collapseBitMask(its[v.parentItem].meta.collapseBitMask,
                                          Len(v.ancestorIds),
                                          its[v.parentItem].meta.collapsed)
         IN indexVisited(
                [its EXCEPT ![v.id].meta =
                    [@ EXCEPT !.collapseBitMask = mask, !.transform = v.transform,
                              !.ancestorIds = v.ancestorIds, !.parentId = v.parentItem]],
                Tail(visits))

(***************************************************************************)
(* Closest point on an outline                                             *)
(***************************************************************************)
\* Arc lengths and the points of the search are counted in ticks, Tick of them
\* to one unit of length, so that every halving of the search is exact; the
\* 1 of the loop test of line 515 is Tick ticks.
Tick == 64

Abs(n) == IF n < 0 THEN 0 - n ELSE n

\* An outline is a list of corner points joined by horizontal and vertical
\* lines, in units.  shadowSvgPath.getTotalLength(), in ticks:
RECURSIVE getTotalLength(_)
getTotalLength(path) ==
    IF Len(path) < 2 THEN 0
    ELSE (Abs(path[2].x - path[1].x) + Abs(path[2].y - path[1].y)) * Tick
         + getTotalLength(Tail(path))

\* shadowSvgPath.getPointAtLength(distance), in ticks: the distance is clamped
\* to the length of the path
RECURSIVE getPointAtLength(_, _)
getPointAtLength(path, distance) ==
    IF Len(path) < 2 \/ distance <= 0 THEN [x |-> Head(path).x * Tick, y |-> Head(path).y * Tick]
    ELSE LET a == path[1]
             b == path[2]
             length == (Abs(b.x - a.x) + Abs(b.y - a.y)) * Tick
             dx == IF b.x > a.x THEN 1 ELSE IF b.x < a.x THEN 0 - 1 ELSE 0
             dy == IF b.y > a.y THEN 1 ELSE IF b.y < a.y THEN 0 - 1 ELSE 0
         IN IF distance <= length \/ Len(path) = 2
            THEN LET d == IF distance <= length THEN distance ELSE length
                 IN [x |-> a.x * Tick + dx * d, y |-> a.y * Tick + dy * d]
            ELSE getPointAtLength(Tail(path), distance - length)

squaredDistance(p, q) == (p.x - q.x) * (p.x - q.x) + (p.y - q.y) * (p.y - q.y)

\* a search whose first width is the whole length of the path
closestPointStartFullWidth(path, localPoint) ==
    LET pathLength == getTotalLength(path)
    IN [path |-> path, localPoint |-> localPoint, pathLength |-> pathLength,
        leftSegment |-> <<0, pathLength \div 2>>,
        rightSegment |-> <<pathLength \div 2, pathLength>>,
        segmentWidth |-> pathLength,
        closestPoint |-> getPointAtLength(path, 0),
        iterations |-> 0, sampled |-> <<0, 0>>, won |-> 0, winner |-> <<0, pathLength>>]

\* the locals of closestPointToSvgPath before the loop (lines 507-513).  The
\* record also keeps what the loop has done: the number of iterations, the two
\* arc lengths sampled last, the arc length of closestPoint, and the segment
\* that won the last comparison.
closestPointStart(path, localPoint) ==
    LET pathLength == getTotalLength(path)
    IN [path |-> path, localPoint |-> localPoint, pathLength |-> pathLength,
        leftSegment |-> <<0, pathLength \div 2>>,
        rightSegment |-> <<pathLength \div 2, pathLength>>,
        segmentWidth |-> pathLength \div 2,
        closestPoint |-> getPointAtLength(path, 0),
        iterations |-> 0, sampled |-> <<0, 0>>, won |-> 0, winner |-> <<0, pathLength>>]

\* the rest of the loop body once both points are sampled and compared
\* (lines 523-531): the winning point becomes closestPoint and the winning
\* segment is split in two halves of width middle
narrowSearch(search, middle, pointLeft, pointRight, leftWins) ==
    LET left0 == IF leftWins THEN search.leftSegment[1] ELSE search.rightSegment[1]
    IN [search EXCEPT !.segmentWidth = middle,
                      !.closestPoint = IF leftWins THEN pointLeft ELSE pointRight,
                      !.leftSegment = <<left0, left0 + middle>>,
                      !.rightSegment = <<left0 + middle, left0 + middle + middle>>,
                      !.iterations = @ + 1,
                      !.sampled = <<search.leftSegment[1] + middle,
                                    search.rightSegment[1] + middle>>,
                      !.won = IF leftWins THEN search.leftSegment[1] + middle
                              ELSE search.rightSegment[1] + middle,
                      !.winner = IF leftWins THEN search.leftSegment ELSE search.rightSegment]

\* a loop body in which the left sample wins ties
closestPointStepLeftWinsTies(search) ==
    LET middle == search.segmentWidth \div 2
        pointLeft == getPointAtLength(search.path, search.leftSegment[1] + middle)
        pointRight == getPointAtLength(search.path, search.rightSegment[1] + middle)
    IN narrowSearch(search, middle, pointLeft, pointRight,
                    squaredDistance(search.localPoint, pointLeft)
                       <= squaredDistance(search.localPoint, pointRight))

\* one pass through the body of the loop (lines 516-532); the segments are
\* pairs, so leftSegment[0] of the code is leftSegment[1] here
closestPointStep(search) ==
    LET middle == search.segmentWidth \div 2
        pointLeft == getPointAtLength(search.path, search.leftSegment[1] + middle)
        pointRight == getPointAtLength(search.path, search.rightSegment[1] + middle)
    IN narrowSearch(search, middle, pointLeft, pointRight,
                    squaredDistance(search.localPoint, pointLeft)
                       < squaredDistance(search.localPoint, pointRight))

\* shape.computePath(item) of the shape of the item: the closed outline of the
\* rectangle of the item for the shape "rect", in the space of the item; no
\* path for an item without a shape
computePath(item) ==
    IF item.shape = "rect"
    THEN <<[x |-> 0, y |-> 0], [x |-> item.area.w, y |-> 0],
           [x |-> item.area.w, y |-> item.area.h], [x |-> 0, y |-> item.area.h],
           [x |-> 0, y |-> 0]>>
    ELSE <<>>

\* a point in units, in the ticks of the search
ticksOf(point) == [x |-> point.x * Tick, y |-> point.y * Tick]

\* the world point of a point of the search (line 535)
worldPointOfTicks(point, item) ==
    worldPointOnItem(point.x \div Tick, point.y \div Tick, item)

\* the loop of line 515 run to its end
RECURSIVE closestPointLoop(_)
closestPointLoop(search) ==
    IF search.segmentWidth > Tick THEN closestPointLoop(closestPointStep(search))
    ELSE search.closestPoint

\* closestPointToSvgPath(item, path, globalPoint), for outlines on which the
\* search stays on whole units
closestPointToSvgPath(item, path, globalPoint) ==
    worldPointOfTicks(
        closestPointLoop(closestPointStart(
            path, ticksOf(localPointOnItem(globalPoint.x, globalPoint.y, item)))),
        item)

(***************************************************************************)
(* Connector router                                                        *)
(***************************************************************************)
emptyLookup == [d \in {} |-> <<>>]

indexDestinationToSourceSwapped(lk, sourceId, destinationId) ==
    IF sourceId \notin DOMAIN lk
    THEN [d \in DOMAIN lk \cup {sourceId} |-> IF d = sourceId THEN <<destinationId>> ELSE lk[d]]
    ELSE [lk EXCEPT ![sourceId] = Append(@, destinationId)]

indexDestinationToSource(lk, sourceId, destinationId) ==
    IF destinationId \notin DOMAIN lk
    THEN [d \in DOMAIN lk \cup {destinationId} |->
             IF d = destinationId THEN <<sourceId>> ELSE lk[d]]
    ELSE IF Contains(lk[destinationId], sourceId) THEN lk
    ELSE [lk EXCEPT ![destinationId] = Append(@, sourceId)]

\* findEdgePoint(item, nextPoint): the closest point of the outline of the
\* shape, and the local centre for a shape without an outline (lines 493-496)
findEdgePoint(item, nextPoint) ==
    LET path == computePath(item)
    IN IF path # <<>>
       THEN closestPointToSvgPath(item, path, nextPoint)
       ELSE [x |-> item.area.x + item.area.w \div 2,
             y |-> item.area.y + item.area.h \div 2]

\* a loop that pushes every waypoint, disabled or not
allReroutes(reroutes) ==
    [k \in 1..Len(reroutes) |-> [x |-> reroutes[k].x, y |-> reroutes[k].y]]

\* the points pushed by the loop of lines 449-455
RECURSIVE enabledReroutes(_)
enabledReroutes(reroutes) ==
    IF reroutes = <<>> THEN <<>>
    ELSE (IF Head(reroutes).disabled THEN <<>>
          ELSE <<[x |-> Head(reroutes).x, y |-> Head(reroutes).y]>>)
         \o enabledReroutes(Tail(reroutes))

areaCentre(item) ==
    [x |-> item.area.x + item.area.w \div 2, y |-> item.area.y + item.area.h \div 2]

\* a routed connector that ends at its last enabled waypoint
connectorPointsWithoutEnd(s, sourceItem, destinationItem, reroutes) ==
    IF Len(reroutes) > 0
    THEN <<findEdgePoint(s.items[sourceItem], reroutes[1])>> \o enabledReroutes(reroutes)
    ELSE IF destinationItem # NoId
         THEN <<findEdgePoint(s.items[sourceItem], areaCentre(s.items[destinationItem])),
                findEdgePoint(s.items[destinationItem], areaCentre(s.items[sourceItem]))>>
         ELSE <<>>

\* the edge points with the enabled reroutes between them, in the order of
\* the pushes of lines 446-458
pointsBetween(edgePoints, reroutes) ==
    IF Len(reroutes) > 0
    THEN <<edgePoints[1]>> \o enabledReroutes(reroutes)
         \o SubSeq(edgePoints, 2, Len(edgePoints))
    ELSE edgePoints

\* the calls of findEdgePoint that buildConnector makes, in order: the item and
\* the point it is aimed at (lines 446, 457, 461-469)
edgePointCalls(s, sourceItem, destinationItem, reroutes) ==
    IF Len(reroutes) > 0
    THEN <<[item |-> sourceItem, nextPoint |-> reroutes[1]]>>
         \o (IF destinationItem # NoId
             THEN <<[item |-> destinationItem, nextPoint |-> reroutes[Len(reroutes)]]>>
             ELSE <<>>)
    ELSE IF destinationItem # NoId
         THEN <<[item |-> sourceItem, nextPoint |-> areaCentre(s.items[destinationItem])],
                [item |-> destinationItem, nextPoint |-> areaCentre(s.items[sourceItem])]>>
         ELSE <<>>

\* meta.points as buildConnector assembles them (lines 445-471)
connectorPoints(s, sourceItem, destinationItem, reroutes) ==
    LET calls == edgePointCalls(s, sourceItem, destinationItem, reroutes)
    IN pointsBetween([k \in 1..Len(calls) |->
                         findEdgePoint(s.items[calls[k].item], calls[k].nextPoint)],
                     reroutes)

buildConnector(s, sourceItem, c) ==
    LET connector == s.conns[c]
        destinationItem == IF connector.itemId \in s.itemMap THEN connector.itemId ELSE NoId
        points == connectorPoints(s, sourceItem, destinationItem, connector.reroutes)
    IN [s EXCEPT !.conns[c].meta.sourceItemId = sourceItem,
                 !.conns[c].meta.points = points,
                 !.lookup = IF destinationItem # NoId
                            THEN indexDestinationToSource(@, sourceItem, destinationItem)
                            ELSE @,
                 !.connectorsMap = @ \cup {c}]

RECURSIVE buildConnectorList(_, _, _)
buildConnectorList(s, sourceItem, cs) ==
    IF cs = <<>> THEN s
    ELSE buildConnectorList(buildConnector(s, sourceItem, Head(cs)), sourceItem, Tail(cs))

buildItemConnectors(s, item) == buildConnectorList(s, item, s.items[item].connectors)

\* the second pass of reindexItems (lines 168-170)
RECURSIVE buildAllConnectors(_, _)
buildAllConnectors(s, itemsWithConnectors) ==
    IF itemsWithConnectors = <<>> THEN s
    ELSE buildAllConnectors(buildItemConnectors(s, Head(itemsWithConnectors)),
                            Tail(itemsWithConnectors))

RECURSIVE visitedIds(_)
visitedIds(visits) ==
    IF visits = <<>> THEN <<>> ELSE <<Head(visits).id>> \o visitedIds(Tail(visits))

\* a reset that leaves the flattened list as it was
resetIndexesKeepsItemArray(s) ==
    [s EXCEPT !.itemMap = {}, !.lookup = emptyLookup, !.connectorsMap = {}]

\* the four assignments that open reindexItems (lines 127-130)
resetIndexes(s) ==
    [s EXCEPT !.itemMap = {}, !.lookup = emptyLookup, !.itemArray = <<>>,
              !.connectorsMap = {}]

\* this.scheme.items of a scheme that has no items list
undefinedItems == [i \in {NoId} |-> NoId]

\* item.area of an item object that has no area
undefinedArea == [undefined |-> TRUE]

\* utils.extendObject(item, props) for the one property the model keeps: the
\* area of props is given to an item that has none
extendObject(item, props) ==
    IF item.area = undefinedArea THEN [item EXCEPT !.area = props.area] ELSE item

\* defaults, with no group among them, that replace the properties the item has
enrichItemWithDefaultsOverwriting(item) ==
    [item EXCEPT !.area = [x |-> 0, y |-> 0, w |-> 0, h |-> 0, r |-> 0], !.group = NoId]

\* of the defaults of lines 378-391 the model keeps the area
enrichItemWithDefaults(item) ==
    extendObject(item, [area |-> [x |-> 0, y |-> 0, w |-> 0, h |-> 0, r |-> 0]])

\* the ids reachable from item through one or more childItems steps
RECURSIVE reach(_, _, _)
reach(its, frontier, fuel) ==
    LET next == frontier \cup UNION {Range(its[i].childItems) : i \in frontier}
    IN IF fuel = 0 \/ next = frontier THEN frontier ELSE reach(its, next, fuel - 1)

\* the callback of line 138 enriches an item before visitItems reads its area
\* for the transform of its children (lines 46-52)
enrichVisited(its, list) ==
    LET visited == reach(its, Range(list), Len(its))
    IN [i \in 1..Len(its) |->
           IF i \in visited THEN enrichItemWithDefaults(its[i]) ELSE its[i]]

\* a partial reindex that hands the children the transform of the item itself
updateChildTransformsUncomposed(s, mainItem) ==
    LET visits == visitItems(s.items, s.items[mainItem].childItems,
                             s.items[mainItem].meta.transform,
                             mainItem, s.items[mainItem].meta.ancestorIds)
    IN [s EXCEPT !.items = [i \in 1..Len(s.items) |->
           IF \E k \in 1..Len(visits) : visits[k].id = i
           THEN [s.items[i] EXCEPT !.meta.transform =
                    visits[CHOOSE k \in 1..Len(visits) : visits[k].id = i].transform]
           ELSE s.items[i]]]

\* updateChildTransforms(mainItem): every item below mainItem gets the
\* transform of its visit, which starts from the transform of mainItem composed
\* with its area (lines 102-121); items of the model always have childItems,
\* meta and meta.transform
updateChildTransforms(s, mainItem) ==
    LET visits == visitItems(s.items, s.items[mainItem].childItems,
                             childTransform(s.items[mainItem].meta.transform,
                                            s.items[mainItem].area),
                             mainItem, s.items[mainItem].meta.ancestorIds)
    IN [s EXCEPT !.items = [i \in 1..Len(s.items) |->
           IF \E k \in 1..Len(visits) : visits[k].id = i
           THEN [s.items[i] EXCEPT !.meta.transform =
                    visits[CHOOSE k \in 1..Len(visits) : visits[k].id = i].transform]
           ELSE s.items[i]]]

\* a reindex that builds the connectors before it visits the items
reindexItemsConnectorsFirst(s) ==
    IF s.rootItems = undefinedItems THEN resetIndexes(s) ELSE
    LET enriched == enrichVisited(s.items, s.rootItems)
        visits == visitItems(enriched, s.rootItems, zeroTransform, NoId, <<>>)
        ids == visitedIds(visits)
        itemsWithConnectors ==
            FilterSeq(ids, {i \in Range(ids) : Len(s.items[i].connectors) > 0})
        built == buildAllConnectors(resetIndexes(s), itemsWithConnectors)
    IN [built EXCEPT !.itemMap = @ \cup Range(ids),
                     !.itemArray = @ \o ids,
                     !.items = indexVisited(enriched, visits),
                     !.revision = @ + 1]

reindexItems(s) ==
    IF s.rootItems = undefinedItems THEN resetIndexes(s) ELSE
    LET enriched == enrichVisited(s.items, s.rootItems)
        visits == visitItems(enriched, s.rootItems, zeroTransform, NoId, <<>>)
        ids == visitedIds(visits)
        indexed == [resetIndexes(s) EXCEPT !.itemMap = @ \cup Range(ids),
                                           !.itemArray = @ \o ids,
                                           !.items = indexVisited(enriched, visits)]
        itemsWithConnectors ==
            FilterSeq(ids, {i \in Range(ids) : Len(s.items[i].connectors) > 0})
        built == buildAllConnectors(indexed, itemsWithConnectors)
    IN [built EXCEPT !.revision = @ + 1]

(***************************************************************************)
(* Mutation operations                                                     *)
(***************************************************************************)
\* addItem of a fresh item object {area, group, connectors}; the connectors it
\* brings are fresh connector objects [itemId, reroutes] without id and meta.
addItem(s, area, group, connectors) ==
    LET n == Len(s.conns)
        cids == [k \in 1..Len(connectors) |-> n + k]
        cells == [k \in 1..Len(connectors) |->
                     newConnector(connectors[k].itemId, connectors[k].reroutes)]
        id == Len(s.items) + 1
    IN reindexItems([s EXCEPT !.items = Append(@, newItem(area, group, cids)),
                              !.conns = @ \o cells,
                              !.rootItems = Append(@, id)])

\* a connectItems that never looks at the connectors the source item has
connectItemsUnchecked(s, sourceItem, destinationItem) ==
    LET c == Len(s.conns) + 1
    IN buildConnector(
           [s EXCEPT !.conns = Append(@, newConnector(destinationItem, <<>>)),
                     !.items[sourceItem].connectors = Append(@, c)],
           sourceItem, c)

connectItems(s, sourceItem, destinationItem) ==
    IF sourceItem # destinationItem
       /\ ~ \E k \in 1..Len(s.items[sourceItem].connectors) :
              s.conns[s.items[sourceItem].connectors[k]].itemId = destinationItem
    THEN LET c == Len(s.conns) + 1
         IN buildConnector(
                [s EXCEPT !.conns = Append(@, newConnector(destinationItem, <<>>)),
                          !.items[sourceItem].connectors = Append(@, c)],
                sourceItem, c)
    ELSE s

removeConnectorsForItemNone(s, item) == s

removeConnectorsForItem(s, item) ==
    LET sourceIds == getConnectingSourceItemIds(s, item)
        live == {sourceIds[k] : k \in {j \in 1..Len(sourceIds) : sourceIds[j] \in s.itemMap}}
    IN [s EXCEPT !.items =
           [i \in 1..Len(s.items) |->
               IF i \in live
               THEN [s.items[i] EXCEPT !.connectors =
                        FilterSeq(@, {c \in Range(@) : s.conns[c].itemId # item})]
               ELSE s.items[i]]]

RECURSIVE removeConnectorsForAllSubItems(_, _)
removeConnectorsForAllSubItems(s, list) ==
    IF list = <<>> THEN s
    ELSE LET s1 == removeConnectorsForItem(s, Head(list))
             s2 == removeConnectorsForAllSubItems(s1, s1.items[Head(list)].childItems)
         IN removeConnectorsForAllSubItems(s2, Tail(list))

deleteItem(s, item) ==
    LET parentId == s.items[item].meta.parentId
        parentItem == findItemById(s, parentId)
        itemsArray == IF parentId # NoId THEN s.items[parentItem].childItems ELSE s.rootItems
        index == IndexOf(itemsArray, item)
        spliced == IF parentId # NoId
                   THEN [s EXCEPT !.items[parentItem].childItems = RemoveAt(@, index)]
                   ELSE [s EXCEPT !.rootItems = RemoveAt(@, index)]
        s1 == removeConnectorsForItem(spliced, item)
    IN IF parentId # NoId /\ parentItem = NoId THEN s
       ELSE IF index = 0 THEN s
       ELSE removeConnectorsForAllSubItems(s1, s1.items[item].childItems)

RECURSIVE deleteItemList(_, _)
deleteItemList(s, list) ==
    IF list = <<>> THEN s ELSE deleteItemList(deleteItem(s, Head(list)), Tail(list))

\* the loop over this.selectedConnectors (lines 643-651)
RECURSIVE deleteConnectorList(_, _)
deleteConnectorList(s, list) ==
    IF list = <<>> THEN s
    ELSE LET c == Head(list)
             sourceItem == findItemById(s, s.conns[c].meta.sourceItemId)
             s1 == IF sourceItem # NoId /\ Contains(s.items[sourceItem].connectors, c)
                   THEN [s EXCEPT !.items[sourceItem].connectors =
                            RemoveAt(@, IndexOf(@, c))]
                   ELSE s
         IN deleteConnectorList(s1, Tail(list))

\* [] is truthy, so the branch of line 642 is always taken and reindexItems always runs
deleteSelectedItemsAndConnectors(s) ==
    LET s1 == IF Len(s.selectedItems) > 0
              THEN [deleteItemList(s, s.selectedItems) EXCEPT !.selectedItems = <<>>]
              ELSE s
        s2 == deleteConnectorList(s1, s1.selectedConnectors)
    IN reindexItems(s2)

\* line 298: the item would be moved into one of its own descendants
movedIntoOwnChildNever(s, item, otherItem) == FALSE

movedIntoOwnChild(s, item, otherItem) ==
    otherItem # NoId /\ Contains(s.items[otherItem].meta.ancestorIds, item)

\* lines 312-324: old ancestor chain's rotation minus the new one's
angleCorrectionDropsNewParent(s, parentItem, otherItem) ==
    IF parentItem # NoId
    THEN s.items[parentItem].meta.transform.r + s.items[parentItem].area.r
    ELSE 0

angleCorrection(s, parentItem, otherItem) ==
    (IF parentItem # NoId
     THEN s.items[parentItem].meta.transform.r + s.items[parentItem].area.r
     ELSE 0)
    - (IF otherItem # NoId
       THEN s.items[otherItem].meta.transform.r + s.items[otherItem].area.r
       ELSE 0)

remountItemInsideOtherItem(s, itemId, otherItemId, position) ==
    LET item == findItemById(s, itemId)
        otherItem == IF otherItemId # NoId THEN findItemById(s, otherItemId) ELSE NoId
        worldPoint == worldPointOnItem(0, 0, s.items[item])
        newLocalPoint == IF otherItem # NoId
                         THEN localPointOnItem(worldPoint.x, worldPoint.y, s.items[otherItem])
                         ELSE worldPoint
        parentId == s.items[item].meta.parentId
        parentItem == findItemById(s, parentId)
        itemsArray == IF parentId # NoId THEN s.items[parentItem].childItems ELSE s.rootItems
        index == IndexOf(itemsArray, itemId)
        removed == IF parentId # NoId
                   THEN [s EXCEPT !.items[parentItem].childItems = RemoveAt(@, index)]
                   ELSE [s EXCEPT !.rootItems = RemoveAt(@, index)]
        inserted == IF otherItem # NoId
                    THEN [removed EXCEPT !.items[otherItem].childItems =
                             InsertAt(@, position, item)]
                    ELSE [removed EXCEPT !.rootItems = InsertAt(@, position, item)]
        moved == [inserted EXCEPT !.items[item].area =
                     [@ EXCEPT !.x = newLocalPoint.x, !.y = newLocalPoint.y,
                               !.r = @ + angleCorrection(s, parentItem, otherItem)]]
    IN IF item = NoId THEN s
       ELSE IF otherItemId # NoId /\ otherItem = NoId THEN s
       ELSE IF movedIntoOwnChild(s, item, otherItem) THEN s
       ELSE IF parentId # NoId /\ parentItem = NoId THEN s
       ELSE IF index = 0 THEN s
       ELSE reindexItems(moved)

\* a wrapper that refreshes the indexes before it gives up on a missing sibling
remountItemAfterOtherItemRefreshing(s, itemId, otherItemId) ==
    LET otherItem == findItemById(s, otherItemId)
        parentId == s.items[otherItem].meta.parentId
        parent == findItemById(s, parentId)
        itemsArray == IF parentId # NoId THEN s.items[parent].childItems ELSE s.rootItems
        index == IndexOf(itemsArray, otherItemId)
    IN IF otherItem = NoId THEN reindexItems(s)
       ELSE IF parentId # NoId /\ parent = NoId THEN s
       ELSE IF index = 0 THEN s
       ELSE remountItemInsideOtherItem(s, itemId,
                                       IF parent # NoId THEN ObjectKey ELSE NoId, index)

\* Line 374 hands the parent OBJECT (or null) to remountItemInsideOtherItem as
\* otherItemId; itemMap[object] looks up the key the object converts to.
remountItemAfterOtherItem(s, itemId, otherItemId) ==
    LET otherItem == findItemById(s, otherItemId)
        parentId == s.items[otherItem].meta.parentId
        parent == findItemById(s, parentId)
        itemsArray == IF parentId # NoId THEN s.items[parent].childItems ELSE s.rootItems
        index == IndexOf(itemsArray, otherItemId)
    IN IF otherItem = NoId THEN s
       ELSE IF parentId # NoId /\ parent = NoId THEN s
       ELSE IF index = 0 THEN s
       ELSE remountItemInsideOtherItem(s, itemId,
                                       IF parent # NoId THEN ObjectKey ELSE NoId, index)

(***************************************************************************)
(* Selection model                                                         *)
(***************************************************************************)
depthOf(s, item) == Len(s.items[item].meta.ancestorIds)

\* Array.prototype.sort with the comparator la - lb (a stable sort)
RECURSIVE sortByDepth(_, _, _)
sortByDepth(s, list, d) ==
    IF \A k \in 1..Len(list) : depthOf(s, list[k]) < d THEN <<>>
    ELSE FilterSeq(list, {i \in Range(list) : depthOf(s, i) = d}) \o sortByDepth(s, list, d + 1)

sortSelectedItemsByAncestors(s) ==
    [s EXCEPT !.selectedItems = sortByDepth(s, @, 0)]

\* an inclusive select without the isAlreadyIn test
selectItemInclusiveAlwaysPushes(s, item) ==
    sortSelectedItemsByAncestors(
        [s EXCEPT !.selectedItems = Append(@, item), !.items[item].meta.selected = TRUE])

selectItemInclusive(s, item) ==
    sortSelectedItemsByAncestors(
        IF Contains(s.selectedItems, item) THEN s
        ELSE [s EXCEPT !.selectedItems = Append(@, item),
                       !.items[item].meta.selected = TRUE])

RECURSIVE selectItemInclusiveList(_, _)
selectItemInclusiveList(s, list) ==
    IF list = <<>> THEN s
    ELSE selectItemInclusiveList(selectItemInclusive(s, Head(list)), Tail(list))

\* the other members of the group that lines 745-750 find: root items only
groupMembersSelectedWith(s, item) ==
    FilterSeq(s.rootItems,
              {o \in Range(s.rootItems) : s.items[o].group = s.items[item].group /\ o # item})

selectItem(s, item, inclusive) ==
    LET s1 == IF inclusive THEN selectItemInclusive(s, item)
              ELSE [s EXCEPT !.items =
                        [i \in 1..Len(s.items) |->
                            IF i = item THEN [s.items[i] EXCEPT !.meta.selected = TRUE]
                            ELSE IF Contains(s.selectedItems, i)
                                 THEN [s.items[i] EXCEPT !.meta.selected = FALSE]
                                 ELSE s.items[i]],
                             !.selectedItems = <<item>>]
    IN IF s.items[item].group # NoId
       THEN selectItemInclusiveList(s1, groupMembersSelectedWith(s1, item))
       ELSE s1

deselectAllItems(s) ==
    [s EXCEPT !.items =
         [i \in 1..Len(s.items) |->
             IF Contains(s.selectedItems, i) THEN [s.items[i] EXCEPT !.meta.selected = FALSE]
             ELSE s.items[i]],
              !.selectedItems = <<>>]

\* the ids that deselectAllItems hands to eventBus.emitItemDeselected, in order
deselectAllItemsEmits(s) == s.selectedItems

\* the ids that selectItem(item, false) hands to eventBus.emitItemDeselected
\* (lines 732-737), in order
selectItemEmitsDeselected(s, item) == SelectSeq(s.selectedItems, LAMBDA i : i # item)

\* myMath.isPointInArea(x, y, area): the point lies in the rectangle, borders included
isPointInArea(x, y, area) ==
    /\ x >= area.x /\ x <= area.x + area.w
    /\ y >= area.y /\ y <= area.y + area.h

\* the test of lines 801-813: all four corners of the item lie in the box
isInArea(item, box) ==
    \A p \in {<<0, 0>>, <<item.area.w, 0>>, <<item.area.w, item.area.h>>, <<0, item.area.h>>} :
        LET wolrdPoint == worldPointOnItem(p[1], p[2], item)
        IN isPointInArea(wolrdPoint.x, wolrdPoint.y, box)

RECURSIVE selectByBoundaryBoxList(_, _, _)
selectByBoundaryBoxList(s, list, box) ==
    IF list = <<>> THEN s
    ELSE LET item == Head(list)
             s1 == IF isInArea(s.items[item], box)
                   THEN [s EXCEPT !.selectedItems = Append(@, item),
                                  !.items[item].meta.selected = TRUE]
                   ELSE s
         IN selectByBoundaryBoxList(s1, Tail(list), box)

selectByBoundaryBox(s, box) == selectByBoundaryBoxList(s, s.itemArray, box)

deselectAllConnectors(s) ==
    [s EXCEPT !.conns =
         [c \in 1..Len(s.conns) |->
             IF Contains(s.selectedConnectors, c) THEN [s.conns[c] EXCEPT !.meta.selected = FALSE]
             ELSE s.conns[c]],
              !.selectedConnectors = <<>>]

\* selectConnector(connector, false)
selectConnector(s, c) ==
    LET s1 == deselectAllConnectors(s)
    IN IF ~ s1.conns[c].meta.selected
       THEN [s1 EXCEPT !.conns[c].meta.selected = TRUE, !.selectedConnectors = Append(@, c)]
       ELSE s1

(***************************************************************************)
(* Groups, copy and paste, reroutes                                        *)
(***************************************************************************)
\* shortid.generate(): an id no object carries
freshGroup(s) ==
    LET used == {s.items[i].group : i \in 1..Len(s.items)} \cup {NoId}
    IN (CHOOSE g \in used : \A h \in used : h <= g) + 1

groupSelectedItems(s) ==
    LET groupId == freshGroup(s)
    IN [s EXCEPT !.items =
           [i \in 1..Len(s.items) |->
               IF Contains(s.selectedItems, i) THEN [s.items[i] EXCEPT !.group = groupId]
               ELSE s.items[i]]]

\* ungroupItem: the scheme is the plain object the constructor was given and
\* has no getItems method, so the call of line 959 raises a TypeError after
\* line 958 has cleared item.group; thrown tells that the exception left the method
ungroupItem(s, item) ==
    IF s.items[item].group # NoId
    THEN [s |-> [s EXCEPT !.items[item].group = NoId], thrown |-> TRUE]
    ELSE [s |-> s, thrown |-> FALSE]

\* bringSelectedItemsToFront(itemArray) on the array list of the heap its: the
\* heap with every sibling list below reordered, and the reordered list itself
RECURSIVE bringToFront(_, _)
RECURSIVE bringChildrenToFront(_, _)
bringToFront(its, list) ==
    LET below == bringChildrenToFront(its, list)
        topItems == {i \in Range(list) : its[i].meta.selected}
    IN [items |-> below,
        list |-> FilterSeq(list, Range(list) \ topItems) \o FilterSeq(list, topItems)]

bringChildrenToFront(its, list) ==
    IF list = <<>> THEN its
    ELSE LET first == bringToFront(its, its[Head(list)].childItems)
         IN bringChildrenToFront([first.items EXCEPT ![Head(list)].childItems = first.list],
                                 Tail(list))

bringSelectedItemsToFront(s) ==
    LET moved == bringToFront(s.items, s.rootItems)
    IN [s EXCEPT !.items = moved.items, !.rootItems = moved.list]

copySelectedItems(s) == [s EXCEPT !.copyBuffer = s.selectedItems]

descendants(its, item) == reach(its, Range(its[item].childItems), Len(its))

\* copyItem never returns on such an item: the recursion of line 1007 has no end
copyItemOverflows(its, item) ==
    \E d \in descendants(its, item) \cup {item} : d \in descendants(its, d)

\* the result of copyItem: the heap with the clones, and the clone of oldItem
RECURSIVE copyItem(_, _)
RECURSIVE copyItemList(_, _)
\* a clone that takes the connectors of the original along
copyItemWithConnectors(its, oldItem) ==
    LET id == Len(its) + 1
        started == Append(its, [newItem(its[oldItem].area, its[oldItem].group,
                                        its[oldItem].connectors)
                                EXCEPT !.shape = its[oldItem].shape])
        children == copyItemList(started, its[oldItem].childItems)
    IN [items |-> [children.items EXCEPT ![id].childItems = children.ids], id |-> id]

copyItem(its, oldItem) ==
    LET id == Len(its) + 1
        started == Append(its, [newItem(its[oldItem].area, its[oldItem].group, <<>>)
                                EXCEPT !.shape = its[oldItem].shape])
        children == copyItemList(started, its[oldItem].childItems)
    IN [items |-> [children.items EXCEPT ![id].childItems = children.ids], id |-> id]

copyItemList(its, list) ==
    IF list = <<>> THEN [items |-> its, ids |-> <<>>]
    ELSE LET first == copyItem(its, Head(list))
             rest == copyItemList(first.items, Tail(list))
         IN [items |-> rest.items, ids |-> <<first.id>> \o rest.ids]

\* a placement that keeps the rotation the clone had inside its ancestors
placedAreaUnturned(area, worldPoint, transform) ==
    [area EXCEPT !.x = worldPoint.x, !.y = worldPoint.y]

\* the area of a pasted clone: the world point of the original's origin, and the
\* rotation of the dropped ancestors added (lines 982-986)
placedArea(area, worldPoint, transform) ==
    [area EXCEPT !.x = worldPoint.x, !.y = worldPoint.y, !.r = @ + transform.r]

\* the buffered items that the loop of lines 974-991 clones, in the order of
\* the clones: those with no id of copiedItemIds in meta.ancestorIds
RECURSIVE pastedOriginals(_, _, _)
pastedOriginals(its, list, copiedItemIds) ==
    IF list = <<>> THEN <<>>
    ELSE IF Range(its[Head(list)].meta.ancestorIds) \cap copiedItemIds # {}
    THEN pastedOriginals(its, Tail(list), copiedItemIds)
    ELSE <<Head(list)>> \o pastedOriginals(its, Tail(list), copiedItemIds \cup {Head(list)})

\* the loop of lines 974-991 over the rest of the copy buffer; thrown is set
\* when copyItem overflowed the stack and the exception left the method
RECURSIVE pasteList(_, _, _)
pasteList(s, list, copiedItemIds) ==
    IF list = <<>> THEN [s |-> s, thrown |-> FALSE]
    ELSE LET item == Head(list)
             worldPoint == worldPointOnItem(0, 0, s.items[item])
             copy == copyItem(s.items, item)
             placed == [copy.items EXCEPT ![copy.id].area =
                          placedArea(@, worldPoint, s.items[item].meta.transform)]
             pushed == [s EXCEPT !.items = placed, !.rootItems = Append(@, copy.id)]
         IN IF \E k \in 1..Len(s.items[item].meta.ancestorIds) :
                   s.items[item].meta.ancestorIds[k] \in copiedItemIds
            THEN pasteList(s, Tail(list), copiedItemIds)
            ELSE IF copyItemOverflows(s.items, item) THEN [s |-> s, thrown |-> TRUE]
            ELSE pasteList(selectItem(pushed, item, TRUE), Tail(list),
                           copiedItemIds \cup {item})

pasteSelectedItems(s) ==
    LET pasted == pasteList(deselectAllItems(s), s.copyBuffer, {})
    IN IF pasted.thrown THEN pasted.s ELSE reindexItems(pasted.s)

\* an insertion followed by a full reindex instead of the rebuild of one connector
addRerouteAtReindexing(s, x, y, c, id) ==
    reindexItems([s EXCEPT !.conns[c].reroutes =
                     InsertAt(@, id, [x |-> x, y |-> y, disabled |-> FALSE])])

\* an insertion that always appends the waypoint
addRerouteAtEnd(s, x, y, c, id) ==
    LET s1 == [s EXCEPT !.conns[c].reroutes =
                  Append(@, [x |-> x, y |-> y, disabled |-> FALSE])]
        sourceItem == findItemById(s1, s1.conns[c].meta.sourceItemId)
    IN IF sourceItem # NoId THEN buildConnector(s1, sourceItem, c) ELSE s1

\* addReroute with the index that findMatchingRerouteSegment returned
addRerouteAt(s, x, y, c, id) ==
    LET s1 == [s EXCEPT !.conns[c].reroutes =
                  InsertAt(@, id, [x |-> x, y |-> y, disabled |-> FALSE])]
        sourceItem == findItemById(s1, s1.conns[c].meta.sourceItemId)
    IN IF sourceItem # NoId THEN buildConnector(s1, sourceItem, c) ELSE s1

\* the values findMatchingRerouteSegment can return: a segment index of meta.points, or 0
findMatchingRerouteSegment(s, c) == {0} \cup (0..(Len(s.conns[c].meta.points) - 2))

(***************************************************************************)
(* The container as a state machine                                        *)
(***************************************************************************)
\* the four corners of the rectangle of an item, in world space (lines 245-250)
cornerPoints(item) ==
    <<worldPointOnItem(0, 0, item),
      worldPointOnItem(item.area.w, 0, item),
      worldPointOnItem(item.area.w, item.area.h, item),
      worldPointOnItem(0, item.area.h, item)>>

RECURSIVE allCornerPoints(_)
allCornerPoints(list) ==
    IF list = <<>> THEN <<>> ELSE cornerPoints(Head(list)) \o allCornerPoints(Tail(list))

\* the four tests of lines 261-272, one after the other
extendBoundaryBox(box, point) ==
    LET movedX == IF box.x > point.x THEN [box EXCEPT !.x = point.x] ELSE box
        widened == IF movedX.x + movedX.w < point.x
                   THEN [movedX EXCEPT !.w = point.x - movedX.x] ELSE movedX
        movedY == IF widened.y > point.y THEN [widened EXCEPT !.y = point.y] ELSE widened
    IN IF movedY.y + movedY.h < point.y
       THEN [movedY EXCEPT !.h = point.y - movedY.y] ELSE movedY

RECURSIVE extendBoundaryBoxAll(_, _)
extendBoundaryBoxAll(box, points) ==
    IF points = <<>> THEN box
    ELSE extendBoundaryBoxAll(extendBoundaryBox(box, Head(points)), Tail(points))

\* getBoundingBoxOfItems(items): the first point of all opens the box
getBoundingBoxOfItems(list) ==
    IF list = undefinedItems \/ list = <<>> THEN [x |-> 0, y |-> 0, w |-> 0, h |-> 0]
    ELSE LET points == allCornerPoints(list)
         IN extendBoundaryBoxAll([x |-> Head(points).x, y |-> Head(points).y,
                                  w |-> 0, h |-> 0], Tail(points))

Op(name, a, b, c) == [op |-> name, a |-> a, b |-> b, c |-> c]

noGeo == [x |-> 0, y |-> 0, item |-> newItem([x |-> 0, y |-> 0, w |-> 0, h |-> 0, r |-> 0],
                                             NoId, <<>>),
          world |-> [x |-> 0, y |-> 0], local |-> [x |-> 0, y |-> 0], applied |-> "none"]

Set(s, op) ==
    /\ items' = s.items
    /\ conns' = s.conns
    /\ rootItems' = s.rootItems
    /\ itemMap' = s.itemMap
    /\ itemArray' = s.itemArray
    /\ lookup' = s.lookup
    /\ connectorsMap' = s.connectorsMap
    /\ revision' = s.revision
    /\ selectedItems' = s.selectedItems
    /\ selectedConnectors' = s.selectedConnectors
    /\ copyBuffer' = s.copyBuffer
    /\ lastOp' = op
    /\ UNCHANGED geo

\* A scheme as loaded from storage: item i has the parent parents[i] (an
\* earlier item, or NoId), the area areas[i], and owns the connectors of
\* connectors whose source is i.
loadedScheme(parents, areas, connectors) ==
    LET n == Len(parents)
        ids == [i \in 1..n |-> i]
        cids == [k \in 1..Len(connectors) |-> k]
    IN [items |-> [i \in 1..n |->
                      [newItem(areas[i], NoId,
                               FilterSeq(cids, {k \in 1..Len(connectors) :
                                                   connectors[k].source = i}))
                       EXCEPT !.childItems = FilterSeq(ids, {j \in 1..n : parents[j] = i})]],
        conns |-> [k \in 1..Len(connectors) |->
                      newConnector(connectors[k].itemId, connectors[k].reroutes)],
        rootItems |-> FilterSeq(ids, {j \in 1..n : parents[j] = NoId})]

\* new SchemeContainer(scheme, eventBus)
newSchemeContainer(scheme) ==
    reindexItems([items |-> scheme.items, conns |-> scheme.conns,
                  rootItems |-> scheme.rootItems, itemMap |-> {},
                  itemArray |-> <<>>, lookup |-> emptyLookup, connectorsMap |-> {},
                  revision |-> 0, selectedItems |-> <<>>, selectedConnectors |-> <<>>,
                  copyBuffer |-> <<>>])

InitWith(s) ==
    /\ items = s.items
    /\ conns = s.conns
    /\ rootItems = s.rootItems
    /\ itemMap = s.itemMap
    /\ itemArray = s.itemArray
    /\ lookup = s.lookup
    /\ connectorsMap = s.connectorsMap
    /\ revision = s.revision
    /\ selectedItems = s.selectedItems
    /\ selectedConnectors = s.selectedConnectors
    /\ copyBuffer = s.copyBuffer
    /\ lastOp = Op("new", NoId, NoId, 0)
    /\ geo = noGeo

(***************************************************************************)
(* Inputs                                                                  *)
(***************************************************************************)
\* the areas {x, y, w, h, r} of the items of loaded schemes and of addItem
Area(x, y, r) == [x |-> x, y |-> y, w |-> 20, h |-> 10, r |-> r]

Areas == {Area(0, 0, 90), Area(10, 10, 0)}

\* the forests over n items in which every parent has a smaller id
Forests(n) == {p \in [1..n -> 0..n] : \A i \in 1..n : p[i] < i}

\* the connector lists of the items handed to addItem: one connector to an id
\* that is not in the scheme
NewConnectors == {<<[itemId |-> MissingId, reroutes |-> <<>>]>>}

\* the waypoints handed to addReroute
ReroutePoints == {[x |-> 50, y |-> 1]}

(***************************************************************************)
(* Operations                                                              *)
(***************************************************************************)
AddItem ==
    /\ Len(items) < MaxItems
    /\ \E area \in Areas :
          Set(addItem(State, area, NoId, <<>>), Op("addItem", Len(items) + 1, NoId, 0))

\* addItem of an item object that has no area
AddItemWithoutArea ==
    /\ Len(items) < MaxItems
    /\ Set(addItem(State, undefinedArea, NoId, <<>>), Op("addItem", Len(items) + 1, NoId, 0))

\* addItem of an item that brings a connector list
AddItemWithConnectors ==
    /\ Len(items) < MaxItems
    /\ \E area \in Areas, cs \in NewConnectors :
          /\ Len(conns) + Len(cs) <= MaxConns
          /\ Set(addItem(State, area, NoId, cs), Op("addItem", Len(items) + 1, NoId, Len(cs)))

ConnectItems ==
    \E a \in itemMap, b \in itemMap :
        Set(connectItems(State, a, b), Op("connectItems", a, b, 0))

DeleteSelectedItemsAndConnectors ==
    /\ Set(deleteSelectedItemsAndConnectors(State),
           Op("deleteSelectedItemsAndConnectors", NoId, NoId, 0))

RemountItemInsideOtherItem ==
    /\ \E a \in itemMap \cup {MissingId}, b \in itemMap \cup {NoId, MissingId},
          position \in 0..MaxPosition :
          Set(remountItemInsideOtherItem(State, a, b, position),
              Op("remountItemInsideOtherItem", a, b, position))

RemountItemAfterOtherItem ==
    /\ \E a \in itemMap \cup {MissingId}, b \in itemMap \cup {MissingId} :
          Set(remountItemAfterOtherItem(State, a, b), Op("remountItemAfterOtherItem", a, b, 0))

\* reindexItems called from outside; the result slot tells whether the call
\* before it was a reindexItems as well
ReindexItems ==
    /\ Set(reindexItems(State),
           Op("reindexItems", NoId, NoId, IF lastOp.op = "reindexItems" THEN 1 ELSE 0))

BringSelectedItemsToFront ==
    /\ Set(bringSelectedItemsToFront(State), Op("bringSelectedItemsToFront", NoId, NoId, 0))

SelectItem ==
    \E item \in itemMap, inclusive \in BOOLEAN :
        Set(selectItem(State, item, inclusive),
            Op("selectItem", item, NoId, IF inclusive THEN 1 ELSE 0))

\* the boxes dragged over the scheme: one that holds the root items at
\* (10,10) only and one that holds every item
Boxes == {[x |-> 0, y |-> 0, w |-> 35, h |-> 25], [x |-> 0, y |-> 0, w |-> 200, h |-> 200]}

SelectByBoundaryBox ==
    \E box \in Boxes :
        Set(selectByBoundaryBox(State, box), Op("selectByBoundaryBox", box.w, box.h, 0))

DeselectAllItems ==
    /\ Set(deselectAllItems(State), Op("deselectAllItems", NoId, NoId, 0))

SelectConnector ==
    \E c \in connectorsMap : Set(selectConnector(State, c), Op("selectConnector", c, NoId, 0))

GroupSelectedItems ==
    /\ Set(groupSelectedItems(State), Op("groupSelectedItems", NoId, NoId, 0))

\* the result slot tells whether an exception left the method
UngroupItem ==
    \E item \in itemMap :
        LET result == ungroupItem(State, item)
        IN Set(result.s, Op("ungroupItem", item, NoId, IF result.thrown THEN 1 ELSE 0))

CopySelectedItems ==
    /\ Set(copySelectedItems(State), Op("copySelectedItems", NoId, NoId, 0))

PasteSelectedItems ==
    /\ LET pasted == pasteSelectedItems(State)
       IN /\ Len(pasted.items) <= MaxItems
          /\ Set(pasted, Op("pasteSelectedItems", NoId, NoId, 0))

AddReroute ==
    \E c \in connectorsMap, p \in ReroutePoints :
        /\ Len(conns[c].reroutes) < MaxReroutes
        /\ \E id \in (IF Len(conns[c].reroutes) > 0 THEN findMatchingRerouteSegment(State, c)
                      ELSE {0}) :
              Set(addRerouteAt(State, p.x, p.y, c, id), Op("addReroute", c, id, 0))

\* the caller writes the area of an item of the scheme, as a drag does
EditItemArea ==
    \E item \in itemMap, area \in Areas :
        /\ items[item].area # area
        /\ Set([State EXCEPT !.items[item].area = area], Op("editArea", item, NoId, 0))

\* the result slot tells whether the call follows an edit of the area of the
\* same item
UpdateChildTransforms ==
    \E item \in itemMap :
        Set(updateChildTransforms(State, item),
            Op("updateChildTransforms", item, NoId,
               IF lastOp.op = "editArea" /\ lastOp.a = item THEN 1 ELSE 0))

\* the item tree selector of the editor flips meta.collapsed of an item
ToggleCollapsed ==
    \E item \in itemMap :
        Set([State EXCEPT !.items[item].meta.collapsed = ~ @],
            Op("toggleCollapsed", item, NoId, 0))

\* addReroute on a connector object the caller still holds as selected
AddRerouteToSelectedConnector ==
    \E k \in 1..Len(selectedConnectors), p \in ReroutePoints :
        LET c == selectedConnectors[k]
        IN /\ Len(conns[c].reroutes) < MaxReroutes
           /\ \E id \in (IF Len(conns[c].reroutes) > 0 THEN findMatchingRerouteSegment(State, c)
                         ELSE {0}) :
                 Set(addRerouteAt(State, p.x, p.y, c, id), Op("addReroute", c, id, 0))

(***************************************************************************)
(* Re-parenting a loaded scheme                                            *)
(***************************************************************************)
InitLoaded ==
    \E parents \in Forests(SchemeSize), areas \in [1..SchemeSize -> Areas] :
        InitWith(newSchemeContainer(loadedScheme(parents, areas, <<>>)))

RemountDepth == 1   \* bound: reindexing calls after construction

NextRemount ==
    \/ revision <= RemountDepth /\ RemountItemInsideOtherItem
    \/ revision <= RemountDepth /\ RemountItemAfterOtherItem

SpecRemount == InitLoaded /\ [][NextRemount]_vars

\* the part of the state that remount may change
Scene == <<items, conns, rootItems, itemMap, itemArray, lookup, connectorsMap, revision>>

worldRotation(item) == item.meta.transform.r + item.area.r

\* C1: remountItemInsideOtherItem(A, B, position) with A's id in B's
\* meta.ancestorIds changes no child list, no area, no index and not the revision.
C1_CycleRefused ==
    [][\A a \in itemMap, b \in itemMap, position \in 0..MaxPosition :
          (/\ lastOp' = Op("remountItemInsideOtherItem", a, b, position)
           /\ Contains(items[b].meta.ancestorIds, a))
          => UNCHANGED Scene]_vars

C1_Witness ==
    /\ lastOp.op = "remountItemInsideOtherItem"
    /\ lastOp.a \in itemMap
    /\ lastOp.b \in itemMap
    /\ Contains(items[lastOp.b].meta.ancestorIds, lastOp.a)

\* C4: an accepted remountItemInsideOtherItem(I, N, position) keeps the world
\* position of I's origin and I's world rotation, and those of every descendant
\* of I; I at (10,10) inside P = (0,0) rotated by 90, moved to the root, ends
\* at (-10,10) with r increased by 90.
C4_WorldPlacementKept ==
    [][\A a \in itemMap, b \in itemMap \cup {NoId}, position \in 0..MaxPosition :
          (/\ lastOp' = Op("remountItemInsideOtherItem", a, b, position)
           /\ b # a
           /\ b # NoId => ~ Contains(items[b].meta.ancestorIds, a))
          => /\ \A d \in {a} \cup descendants(items, a) :
                   /\ worldPointOnItem(0, 0, items'[d]) = worldPointOnItem(0, 0, items[d])
                   /\ worldRotation(items'[d]) = worldRotation(items[d])
             /\ (/\ b = NoId
                 /\ items[a].meta.parentId # NoId
                 /\ items[items[a].meta.parentId].meta.parentId = NoId
                 /\ items[items[a].meta.parentId].area = Area(0, 0, 90)
                 /\ items[a].area.x = 10 /\ items[a].area.y = 10)
                => /\ items'[a].area = [items[a].area EXCEPT !.x = -10, !.y = 10, !.r = @ + 90]
                   /\ worldPointOnItem(0, 0, items'[a]) = [x |-> -10, y |-> 10]]_vars

C4_Witness ==
    /\ lastOp = Op("remountItemInsideOtherItem", 2, NoId, 0)
    /\ rootItems = <<2, 1>>
    /\ items[1].area = Area(0, 0, 90)
    /\ items[2].area = Area(-10, 10, 90)
    /\ revision = 2

\* C14: remountItemInsideOtherItem and remountItemAfterOtherItem called with
\* an itemId or an otherItemId that does not resolve to an item change no child
\* list, no area, no index, neither selection, nor the revision.
C14_NotFoundIsNoOp ==
    [][(\/ /\ lastOp'.op = "remountItemInsideOtherItem"
           /\ \/ lastOp'.a \notin itemMap
              \/ lastOp'.b \notin itemMap \cup {NoId}
        \/ /\ lastOp'.op = "remountItemAfterOtherItem"
           /\ \/ lastOp'.a \notin itemMap
              \/ lastOp'.b \notin itemMap)
       => UNCHANGED <<Scene, selectedItems, selectedConnectors, copyBuffer>>]_vars

\* remountItemAfterOtherItem was called with an unknown item and a known sibling
C14_Witness ==
    /\ lastOp.op = "remountItemAfterOtherItem"
    /\ lastOp.a \notin itemMap
    /\ lastOp.b \in itemMap
    /\ Len(itemArray) = SchemeSize

(***************************************************************************)
(* Connecting and deleting                                                 *)
(***************************************************************************)
\* loaded schemes that differ in shape only
InitForest ==
    \E parents \in Forests(SchemeSize) :
        InitWith(newSchemeContainer(
            loadedScheme(parents, [i \in 1..SchemeSize |-> Area(10, 10, 0)], <<>>)))

ConnectDepth == 2   \* bound: reindexing calls after construction; no call is explored after the last

NextConnect ==
    \/ revision <= ConnectDepth /\ AddItem
    \/ revision <= ConnectDepth /\ Len(conns) < MaxConns /\ ConnectItems
    \/ revision <= ConnectDepth /\ SelectItem
    \/ revision <= ConnectDepth /\ SelectConnector
    \/ revision <= ConnectDepth /\ DeleteSelectedItemsAndConnectors

SpecConnect == InitForest /\ [][NextConnect]_vars

\* the items reachable from the root list, and the connectors they own
treeItems == Range(visitedIds(visitItems(items, rootItems, zeroTransform, NoId, <<>>)))

treeConnectors == UNION {Range(items[i].connectors) : i \in treeItems}

ownersOfConnectorsTo(d) ==
    {i \in treeItems : \E c \in Range(items[i].connectors) : conns[c].itemId = d}

C3_DeletePurges ==
    lastOp.op = "deleteSelectedItemsAndConnectors" =>
        /\ \A i \in (1..Len(items)) \ treeItems :
              /\ i \notin itemMap
              /\ ~ Contains(itemArray, i)
              /\ Range(items[i].connectors) \cap connectorsMap = {}
              /\ ownersOfConnectorsTo(i) = {}
        /\ Range(selectedConnectors) \cap treeConnectors = {}
        /\ selectedItems = <<>>

\* a parent with a child was deleted, and a connector that pointed at the
\* child from a surviving item went with them
C3_Witness ==
    /\ lastOp.op = "deleteSelectedItemsAndConnectors"
    /\ \E i \in (1..Len(items)) \ treeItems :
          /\ items[i].childItems # <<>>
          /\ \E c \in 1..Len(conns) :
                /\ conns[c].itemId \in Range(items[i].childItems)
                /\ conns[c].meta.sourceItemId \in treeItems

(***************************************************************************)
(* Selecting and grouping                                                  *)
(***************************************************************************)
MaxGroups == 2      \* bound: group ids handed out by groupSelectedItems

NextSelect ==
    \/ SelectItem
    \/ DeselectAllItems
    \/ freshGroup(State) <= MaxGroups /\ GroupSelectedItems

SpecSelect == InitForest /\ [][NextSelect]_vars

\* C5: selectItem(m, false) on a member m of a group selects exactly the items
\* of the tree that carry m's group id, at any nesting level, each once and
\* each with meta.selected = true, and no other item is selected.
C5_GroupClosure ==
    (lastOp.op = "selectItem" /\ lastOp.c = 0 /\ items[lastOp.a].group # NoId) =>
        LET members == {i \in treeItems : items[i].group = items[lastOp.a].group}
        IN /\ Range(selectedItems) = members
           /\ Len(selectedItems) = Cardinality(members)
           /\ \A i \in treeItems : items[i].meta.selected <=> i \in members

(***************************************************************************)
(* Copy and paste                                                          *)
(***************************************************************************)
PasteDepth == 2     \* bound: reindexing calls after construction; no call is explored after the last

NextPaste ==
    \/ revision <= PasteDepth /\ SelectItem
    \/ revision <= PasteDepth /\ CopySelectedItems
    \/ revision <= PasteDepth /\ RemountItemInsideOtherItem
    \/ revision <= PasteDepth /\ PasteSelectedItems

SpecPaste == InitForest /\ [][NextPaste]_vars

\* C6: when the copy buffer holds an item of the tree together with one of its
\* descendants, pasteSelectedItems called right after the copy appends to the root list exactly one new
\* item per buffered item that has no buffered ancestor.
C6_PasteSkipsNestedDuplicates ==
    [][(/\ lastOp'.op = "pasteSelectedItems"
        /\ lastOp.op = "copySelectedItems"
        /\ Range(copyBuffer) \subseteq treeItems
        /\ \E i \in Range(copyBuffer), j \in Range(copyBuffer) :
              j \in Range(items[i].meta.ancestorIds))
       => /\ SubSeq(rootItems', 1, Len(rootItems)) = rootItems
          /\ Len(rootItems') - Len(rootItems) =
                Cardinality({i \in Range(copyBuffer) :
                                Range(items[i].meta.ancestorIds) \cap Range(copyBuffer) = {}})]_vars

(***************************************************************************)
(* Connector routing                                                       *)
(***************************************************************************)
\* a waypoint that the loaded scheme carries switched off
DisabledReroute == [x |-> 7, y |-> 3, disabled |-> TRUE]

\* the connectors of loaded schemes: none, or one from item 1 to the last item
\* or to an id the scheme does not hold, unrouted or with a disabled waypoint
LoadedConnectors ==
    {<<>>} \cup
    {<<[source |-> 1, itemId |-> d, reroutes |-> rr]>> :
        d \in {SchemeSize, MissingId}, rr \in {<<>>, <<DisabledReroute>>}}

InitRouted ==
    \E parents \in Forests(SchemeSize), connectors \in LoadedConnectors :
        InitWith(newSchemeContainer(
            loadedScheme(parents, [i \in 1..SchemeSize |-> Area(10, 10, 0)], connectors)))

RouteDepth == 1     \* bound: reindexing calls after construction; no call is explored after the last

NextRoute ==
    \/ revision <= RouteDepth /\ AddItemWithConnectors
    \/ revision <= RouteDepth /\ Len(conns) < MaxConns /\ ConnectItems
    \/ revision <= RouteDepth /\ RemountItemInsideOtherItem
    \/ revision <= RouteDepth /\ SelectItem
    \/ revision <= RouteDepth /\ SelectConnector
    \/ revision <= RouteDepth /\ CopySelectedItems
    \/ revision <= RouteDepth /\ PasteSelectedItems
    \/ revision <= RouteDepth /\ DeleteSelectedItemsAndConnectors
    \/ revision <= RouteDepth /\ AddReroute

SpecRoute == InitRouted /\ [][NextRoute]_vars

\* the connectors owned by items of the tree whose destination is not in the tree
danglingConnectors ==
    {c \in treeConnectors : conns[c].itemId \notin treeItems}

ownerOf(c) == CHOOSE i \in treeItems : c \in Range(items[i].connectors)

\* C7 as stated: every connector whose itemId does not resolve to an item of
\* the tree has meta.points = [], whether it has reroutes or not.
C7_DanglingConnectorHasNoPoints ==
    \A c \in danglingConnectors : conns[c].meta.points = <<>>

\* C7 as amended: a connector whose itemId does not resolve has meta.points = []
\* when its reroutes list is empty; otherwise meta.points is the edge point of
\* the source item followed by the enabled reroutes in order, without an end point.
C7_DanglingConnectorPoints ==
    \A c \in danglingConnectors :
        LET reroutes == conns[c].reroutes
            enabled == SelectSeq(reroutes, LAMBDA p : ~ p.disabled)
        IN conns[c].meta.points =
              IF reroutes = <<>> THEN <<>>
              ELSE <<findEdgePoint(items[ownerOf(c)], reroutes[1])>>
                   \o [k \in 1..Len(enabled) |-> [x |-> enabled[k].x, y |-> enabled[k].y]]

\* addReroute put a second waypoint next to a disabled one on a connector
\* whose destination is missing
C7_Witness ==
    /\ lastOp.op = "addReroute"
    /\ lastOp.a \in danglingConnectors
    /\ \E k \in 1..Len(conns[lastOp.a].reroutes) : conns[lastOp.a].reroutes[k].disabled
    /\ Len(conns[lastOp.a].meta.points) = 2

\* C8: every connector owned by an item S of the tree has meta.sourceItemId = S,
\* and at least two points whenever its destination is an item of the tree.
C8_ConnectorSourceAndPoints ==
    \A i \in treeItems : \A c \in Range(items[i].connectors) :
        /\ conns[c].meta.sourceItemId = i
        /\ conns[c].itemId \in treeItems => Len(conns[c].meta.points) >= 2

\* a remount or a paste rebuilt a connector whose destination resolves and
\* whose reroutes are all disabled
C8_Witness ==
    /\ lastOp.op \in {"remountItemInsideOtherItem", "pasteSelectedItems"}
    /\ \E c \in treeConnectors :
          /\ conns[c].itemId \in treeItems
          /\ conns[c].reroutes # <<>>
          /\ \A k \in 1..Len(conns[c].reroutes) : conns[c].reroutes[k].disabled
          /\ Len(conns[c].meta.points) = 2

(***************************************************************************)
(* Reindexing again                                                        *)
(***************************************************************************)
ReindexDepth == 2   \* bound: reindexing calls after construction; no call is explored after the last

NextReindex ==
    \/ revision <= ReindexDepth /\ SelectItem
    \/ revision <= ReindexDepth /\ BringSelectedItemsToFront
    \/ revision <= ReindexDepth /\ ReindexItems

SpecReindex == InitRouted /\ [][NextReindex]_vars

\* C9: in a state that reindexItems produced, a second reindexItems leaves
\* meta.transform, meta.ancestorIds and meta.parentId of every item, the item
\* map, the connector map, the destination-to-sources map and the flattened
\* list as they are, and adds one to the revision.
C9_ReindexIdempotent ==
    lastOp.op = "reindexItems" =>
        LET again == reindexItems(State)
        IN /\ \A i \in 1..Len(items) :
                 /\ again.items[i].meta.transform = items[i].meta.transform
                 /\ again.items[i].meta.ancestorIds = items[i].meta.ancestorIds
                 /\ again.items[i].meta.parentId = items[i].meta.parentId
           /\ again.itemMap = itemMap
           /\ again.connectorsMap = connectorsMap
           /\ again.lookup = lookup
           /\ again.itemArray = itemArray
           /\ again.revision = revision + 1

\* the second of two reindexItems calls in a row, on a scheme with a connector
\* whose sibling order bringSelectedItemsToFront had changed before the first
C9_Witness ==
    /\ lastOp.op = "reindexItems"
    /\ lastOp.c = 1
    /\ connectorsMap # {}
    /\ \E k \in 1..(Len(itemArray) - 1) : itemArray[k] > itemArray[k + 1]

(***************************************************************************)
(* Local and world coordinates                                             *)
(***************************************************************************)
MaxCoord == 1       \* bound: largest coordinate of points, areas and transforms
MaxTurns == 2       \* bound: largest number of quarter turns of a rotation

Coords == (0 - MaxCoord)..MaxCoord

Turns == {90 * k : k \in (0 - MaxTurns)..MaxTurns}

\* items with an area and the meta.transform a reindex may have given them
GeoItems ==
    {[newItem([x |-> ax, y |-> ay, w |-> 20, h |-> 10, r |-> ar], NoId, <<>>)
      EXCEPT !.meta.transform = [x |-> tx, y |-> ty, r |-> tr]] :
        ax \in Coords, ay \in Coords, ar \in Turns,
        tx \in {0, MaxCoord}, ty \in {0, 0 - MaxCoord}, tr \in Turns}

InitGeom ==
    InitWith(newSchemeContainer([items |-> <<>>, conns |-> <<>>, rootItems |-> <<>>]))

WorldThenLocal ==
    /\ geo.applied = "none"
    /\ \E x \in Coords, y \in Coords, item \in GeoItems :
          LET world == worldPointOnItem(x, y, item)
          IN geo' = [x |-> x, y |-> y, item |-> item, world |-> world,
                     local |-> localPointOnItem(world.x, world.y, item),
                     applied |-> "worldThenLocal"]
    /\ UNCHANGED <<items, conns, rootItems, itemMap, itemArray, lookup, connectorsMap,
                   revision, selectedItems, selectedConnectors, copyBuffer, lastOp>>

LocalThenWorld ==
    /\ geo.applied = "none"
    /\ \E x \in Coords, y \in Coords, item \in GeoItems :
          LET local == localPointOnItem(x, y, item)
          IN geo' = [x |-> x, y |-> y, item |-> item, local |-> local,
                     world |-> worldPointOnItem(local.x, local.y, item),
                     applied |-> "localThenWorld"]
    /\ UNCHANGED <<items, conns, rootItems, itemMap, itemArray, lookup, connectorsMap,
                   revision, selectedItems, selectedConnectors, copyBuffer, lastOp>>

NextGeom ==
    \/ WorldThenLocal
    \/ LocalThenWorld

SpecGeom == InitGeom /\ [][NextGeom]_vars

\* C10: localPointOnItem of worldPointOnItem(x, y, item) is (x, y), and
\* worldPointOnItem of localPointOnItem(x, y, item) is (x, y).
C10_TransformRoundTrip ==
    /\ geo.applied = "worldThenLocal" => geo.local = [x |-> geo.x, y |-> geo.y]
    /\ geo.applied = "localThenWorld" => geo.world = [x |-> geo.x, y |-> geo.y]

\* a world point taken into an item turned by -90 inside a parent chain turned
\* by 180, away from the origin, and back
C10_Witness ==
    /\ geo.applied = "localThenWorld"
    /\ geo.item.meta.transform.r = 180
    /\ geo.item.area.r = 0 - 90
    /\ geo.item.meta.transform.x # 0
    /\ geo.local # [x |-> geo.x, y |-> geo.y]

(***************************************************************************)
(* The indexes right after a reindex                                       *)
(***************************************************************************)
\* loaded schemes one item larger, so that chains of three items occur
InitDeep ==
    \E parents \in Forests(SchemeSize + 1), areas \in [1..(SchemeSize + 1) -> Areas] :
        InitWith(newSchemeContainer(loadedScheme(parents, areas, <<>>)))

IndexDepth == 1     \* bound: reindexing calls after construction; no call is explored after the last

NextIndex ==
    \/ revision <= IndexDepth /\ ReindexItems
    \/ revision <= IndexDepth /\ RemountItemInsideOtherItem

SpecIndex == InitDeep /\ [][NextIndex]_vars

\* the items reachable from the root list through child lists
reachableItems == reach(items, Range(rootItems), Len(items))

\* the child list that holds item i: the root list, or the childItems of its holder
holderOf(i) ==
    IF i \in Range(rootItems) THEN NoId
    ELSE CHOOSE j \in reachableItems : i \in Range(items[j].childItems)

siblingsOf(i) == IF holderOf(i) = NoId THEN rootItems ELSE items[holderOf(i)].childItems

\* C11: right after a reindex every reachable item has the parentId of the item
\* whose childItems holds it (null for a root item), the ancestorIds chain of
\* that parent followed by the parent, and the transform {0,0,0} at the root and
\* otherwise the parent's transform composed with the parent's area; the item
\* map holds exactly the reachable items and the flattened list is their
\* pre-order traversal.
C11_MetaMatchesTree ==
    /\ \A i \in reachableItems :
          LET p == holderOf(i)
              m == items[i].meta
          IN /\ m.parentId = p
             /\ p = NoId => m.ancestorIds = <<>> /\ m.transform = [x |-> 0, y |-> 0, r |-> 0]
             /\ p # NoId =>
                   LET pt == items[p].meta.transform
                       l == items[p].area
                   IN /\ m.ancestorIds = Append(items[p].meta.ancestorIds, p)
                      /\ m.transform =
                            [x |-> pt.x + l.x * Cos(pt.r) - l.y * Sin(pt.r),
                             y |-> pt.y + l.x * Sin(pt.r) + l.y * Cos(pt.r),
                             r |-> pt.r + l.r]
    /\ itemMap = reachableItems
    /\ Range(itemArray) = reachableItems
    /\ Len(itemArray) = Cardinality(reachableItems)
    /\ \A i \in reachableItems :
          LET below == descendants(items, i)
              at == IndexOf(itemArray, i)
          IN /\ {itemArray[k] : k \in (at + 1)..(at + Cardinality(below))} = below
             /\ \A j \in Range(siblingsOf(i)) :
                   IndexOf(siblingsOf(i), i) < IndexOf(siblingsOf(i), j)
                   => at < IndexOf(itemArray, j)

\* a remount produced a chain of three items below a turned root item that is
\* not at the origin
C11_Witness ==
    /\ lastOp.op = "remountItemInsideOtherItem"
    /\ revision = 2
    /\ \E i \in reachableItems :
          /\ Len(items[i].meta.ancestorIds) = 2
          /\ items[items[i].meta.ancestorIds[1]].area.r = 90
          /\ items[items[i].meta.ancestorIds[2]].area.x # 0

(***************************************************************************)
(* The revision counter                                                    *)
(***************************************************************************)
\* a container built on a scheme without an items list
InitNoItems ==
    InitWith(newSchemeContainer(
        [items |-> <<>>, conns |-> <<>>, rootItems |-> undefinedItems]))

InitRevision == InitForest \/ InitNoItems

RevisionDepth == 2  \* bound: reindexing calls after construction; no call is explored after the last

NextRevision ==
    \/ revision <= RevisionDepth /\ ReindexItems
    \/ revision <= RevisionDepth /\ SelectItem
    \/ revision <= RevisionDepth /\ DeleteSelectedItemsAndConnectors
    \/ revision <= RevisionDepth /\ Len(conns) < MaxConns /\ ConnectItems
    \/ revision <= RevisionDepth /\ DeselectAllItems

SpecRevision == InitRevision /\ [][NextRevision]_vars

\* C12: the revision never decreases, every reindexItems call adds exactly one
\* to it whatever the scheme (also one without an items list), and a
\* deleteSelectedItemsAndConnectors call that deletes one or more items adds
\* exactly one.
C12_RevisionCountsReindexCalls ==
    [][/\ revision' >= revision
       /\ lastOp'.op = "reindexItems" => revision' = revision + 1
       /\ (lastOp'.op = "deleteSelectedItemsAndConnectors" /\ Len(selectedItems) >= 1)
             => revision' = revision + 1]_vars

(***************************************************************************)
(* Remounting next to a sibling                                            *)
(***************************************************************************)
AfterDepth == 1     \* bound: reindexing calls after construction; no call is explored after the last

NextAfter ==
    \/ revision <= AfterDepth /\ RemountItemAfterOtherItem

SpecAfter == InitDeep /\ [][NextAfter]_vars

\* C13: after remountItemAfterOtherItem(X, Y), for distinct items X and Y of the
\* scheme with Y outside X's subtree, X is in the child list that holds Y, at
\* the index right after Y.
C13_RemountedRightAfter ==
    [][\A X \in itemMap, Y \in itemMap :
          (/\ lastOp' = Op("remountItemAfterOtherItem", X, Y, 0)
           /\ X # Y
           /\ Y \notin descendants(items, X))
          => \E list \in {rootItems'} \cup {items'[j].childItems : j \in itemMap'} :
                \E k \in 1..(Len(list) - 1) : list[k] = Y /\ list[k + 1] = X]_vars

(***************************************************************************)
(* Inserting waypoints                                                     *)
(***************************************************************************)
\* loaded schemes whose items are centred at (0,0), (100,0), (200,0), ...
\* two loaded connectors: the one of LoadedConnectors and one from the last
\* item back to item 1
LoadedPairs ==
    {one \o <<[source |-> SchemeSize, itemId |-> 1, reroutes |-> rr]>> :
        one \in LoadedConnectors \ {<<>>}, rr \in {<<>>, <<DisabledReroute>>}}

InitAligned ==
    \E parents \in Forests(SchemeSize), connectors \in LoadedConnectors \cup LoadedPairs :
        InitWith(newSchemeContainer(
            loadedScheme(parents,
                         [i \in 1..SchemeSize |->
                             [x |-> 100 * (i - 1) - 10, y |-> 0 - 5, w |-> 20, h |-> 10, r |-> 0]],
                         connectors)))

RerouteDepth == 1   \* bound: reindexing calls after construction; no call is explored after the last

NextReroute ==
    \/ revision <= RerouteDepth /\ AddReroute
    \/ revision <= RerouteDepth /\ Len(conns) < MaxConns /\ ConnectItems
    \/ revision <= RerouteDepth /\ SelectItem
    \/ revision <= RerouteDepth /\ SelectConnector

SpecReroute == InitAligned /\ [][NextReroute]_vars

\* what C15 and its amendment share: addReroute on connector c returned id, the
\* reroutes grew by the waypoint p at index id, and the connector with no
\* reroutes and the points (0,0), (100,0) got (50,1) at index 0 as the middle
\* one of three points
rerouteInserted(c, id, p) ==
    /\ Len(conns'[c].reroutes) = Len(conns[c].reroutes) + 1
    /\ conns'[c].reroutes[id + 1] = [x |-> p.x, y |-> p.y, disabled |-> FALSE]
    /\ RemoveAt(conns'[c].reroutes, id + 1) = conns[c].reroutes
    /\ (/\ conns[c].reroutes = <<>>
        /\ conns[c].meta.points = <<[x |-> 0, y |-> 0], [x |-> 100, y |-> 0]>>)
       => /\ id = 0
          /\ conns'[c].meta.points = <<[x |-> 0, y |-> 0], p, [x |-> 100, y |-> 0]>>

\* C15 as stated: addReroute lengthens reroutes by the waypoint, returns its
\* index in reroutes, and the waypoint is an interior point of the rebuilt
\* meta.points; on (0,0),(100,0) addReroute(50,1) returns 0 and gives 3 points.
C15_WaypointIsInterior ==
    [][\A c \in connectorsMap, p \in ReroutePoints :
          lastOp'.op = "addReroute" /\ lastOp'.a = c
          => /\ rerouteInserted(c, lastOp'.b, p)
             /\ \E k \in 2..(Len(conns'[c].meta.points) - 1) : conns'[c].meta.points[k] = p]_vars

\* C15 as amended: the waypoint is a point of the rebuilt meta.points after the
\* first one, and before the last one when the destination of the connector
\* resolves.
C15_WaypointAfterSource ==
    [][\A c \in connectorsMap, p \in ReroutePoints :
          lastOp'.op = "addReroute" /\ lastOp'.a = c
          => /\ rerouteInserted(c, lastOp'.b, p)
             /\ \E k \in 2..Len(conns'[c].meta.points) :
                   /\ conns'[c].meta.points[k] = p
                   /\ conns[c].itemId \in itemMap => k < Len(conns'[c].meta.points)]_vars

\* addReroute(50, 1) on the connector routed (0,0)-(100,0) without reroutes
C15_Witness ==
    /\ lastOp.op = "addReroute"
    /\ lastOp.b = 0
    /\ conns[lastOp.a].meta.points = <<[x |-> 0, y |-> 0], [x |-> 50, y |-> 1], [x |-> 100, y |-> 0]>>
    /\ Len(conns[lastOp.a].reroutes) = 1

MaxSelected == 3    \* bound: entries of selectedItems before another box selection

NextBox ==
    \/ SelectItem
    \/ DeselectAllItems
    \/ Len(selectedItems) < MaxSelected /\ SelectByBoundaryBox
    \/ freshGroup(State) <= MaxGroups /\ GroupSelectedItems

SpecBox == InitForest /\ [][NextBox]_vars

\* how often e occurs in the list
count(list, e) == Cardinality({k \in 1..Len(list) : list[k] = e})

\* C17: selectItem(item, false) on an item without a group leaves selectedItems
\* = [item] with item.meta.selected true and every other item of the tree
\* unselected, and emits exactly one item-deselected notification for each
\* previously selected item other than item.
C17_SingleSelectReplaces ==
    [][\A item \in itemMap :
          (lastOp' = Op("selectItem", item, NoId, 0) /\ items[item].group = NoId)
          => /\ selectedItems' = <<item>>
             /\ items'[item].meta.selected
             /\ \A i \in treeItems \ {item} : ~ items'[i].meta.selected
             /\ \A i \in 1..Len(items) :
                   count(selectItemEmitsDeselected(State, item), i) =
                      IF i \in Range(selectedItems) \ {item} THEN 1 ELSE 0]_vars

\* C18: selectItem(item, true) keeps every previously selected item selected,
\* adds item exactly when it was not in selectedItems yet (a repeated inclusive
\* select makes no second entry), and leaves selectedItems ordered by
\* non-decreasing meta.ancestorIds.length.
C18_InclusiveSelectAdds ==
    [][\A item \in itemMap :
          lastOp' = Op("selectItem", item, NoId, 1)
          => /\ \A i \in Range(selectedItems) :
                   /\ count(selectedItems', i) >= count(selectedItems, i)
                   /\ items[i].meta.selected => items'[i].meta.selected
             /\ count(selectedItems', item) =
                   IF Contains(selectedItems, item) THEN count(selectedItems, item) ELSE 1
             /\ items'[item].meta.selected
             /\ \A k \in 1..(Len(selectedItems') - 1) :
                   Len(items'[selectedItems'[k]].meta.ancestorIds)
                      <= Len(items'[selectedItems'[k + 1]].meta.ancestorIds)]_vars

\* an inclusive select of a parent whose child is selected as well: the
\* selection holds the parent once, in front of the child
C18_Witness ==
    /\ lastOp.op = "selectItem" /\ lastOp.c = 1
    /\ Len(selectedItems) = 2
    /\ items[selectedItems[2]].meta.parentId = selectedItems[1]
    /\ lastOp.a = selectedItems[1]
    /\ selectedItems[1] < selectedItems[2]

\* C19: deselectAllItems leaves selectedItems empty and meta.selected false on
\* every formerly selected item, and emits exactly one item-deselected
\* notification per formerly selected item.
C19_DeselectAllNotifiesOnce ==
    [][lastOp'.op = "deselectAllItems"
       => /\ selectedItems' = <<>>
          /\ \A i \in Range(selectedItems) : ~ items'[i].meta.selected
          /\ \A i \in 1..Len(items) :
                count(deselectAllItemsEmits(State), i) =
                   IF i \in Range(selectedItems) THEN 1 ELSE 0]_vars

(***************************************************************************)
(* Grouping and ungrouping                                                 *)
(***************************************************************************)
NextGroup ==
    \/ SelectItem
    \/ freshGroup(State) <= MaxGroups /\ GroupSelectedItems
    \/ UngroupItem

SpecGroup == InitDeep /\ [][NextGroup]_vars

\* C20: ungroupItem(item) on an item with a group clears item.group and
\* completes normally; one other item of the tree left with that group id
\* loses it too, two or more keep it.  After groupSelectedItems all selected
\* items share one group id that no item carried before.
C20_UngroupDissolvesPairs ==
    [][/\ \A item \in itemMap :
             (lastOp'.op = "ungroupItem" /\ lastOp'.a = item /\ items[item].group # NoId)
             => LET group == items[item].group
                    leftover == {i \in treeItems \ {item} : items[i].group = group}
                IN /\ lastOp'.c = 0
                   /\ items'[item].group = NoId
                   /\ Cardinality(leftover) = 1 => \A i \in leftover : items'[i].group = NoId
                   /\ Cardinality(leftover) >= 2 => \A i \in leftover : items'[i].group = group
       /\ lastOp'.op = "groupSelectedItems"
             => \E g \in 1..(MaxGroups + 1) :
                   /\ \A i \in 1..Len(items) : items[i].group # g
                   /\ \A i \in Range(selectedItems) : items'[i].group = g]_vars

(***************************************************************************)
(* What a paste creates                                                    *)
(***************************************************************************)
\* C21: every item that pasteSelectedItems creates, nested clones included,
\* has an id that no item had before the paste and that no other clone has
\* (an id is the place of the object in the heap), and owns no connectors;
\* the originals keep their child lists and connectors, and the tree holds the
\* same connectors after the paste as before.
C21_ClonesAreFreshAndUnconnected ==
    [][lastOp'.op = "pasteSelectedItems"
       => LET created == treeItems' \ treeItems
          IN /\ created = (Len(items) + 1)..Len(items')
             /\ Len(visitedIds(visitItems(items', rootItems', zeroTransform, NoId, <<>>)))
                   = Cardinality(treeItems')
             /\ \A n \in created : items'[n].connectors = <<>>
             /\ \A i \in 1..Len(items) :
                   /\ items'[i].childItems = items[i].childItems
                   /\ items'[i].connectors = items[i].connectors
             /\ treeConnectors' = treeConnectors
             /\ Cardinality(connectorsMap') = Cardinality(connectorsMap)]_vars

\* a paste has cloned item 1 with a child of it, while item 1 owns a connector
C21_Witness ==
    /\ lastOp.op = "pasteSelectedItems"
    /\ 1 \in Range(copyBuffer)
    /\ items[1].connectors # <<>>
    /\ items[1].childItems # <<>>
    /\ \E n \in treeItems : n > SchemeSize /\ Len(items[n].childItems) = Len(items[1].childItems)

(***************************************************************************)
(* The copy buffer                                                         *)
(***************************************************************************)
\* the items that a paste cloned: the loaded scheme has the items 1..SchemeSize
clones == (SchemeSize + 1)..Len(items)

\* n, an item of the heap after the step, is the clone that a paste takes of
\* the item original as it is before the step
isCloneOf(n, original) ==
    LET worldPoint == worldPointOnItem(0, 0, items[original])
    IN /\ items'[n].area.x = worldPoint.x
       /\ items'[n].area.y = worldPoint.y
       /\ items'[n].area.w = items[original].area.w
       /\ items'[n].area.h = items[original].area.h
       /\ items'[n].area.r = items[original].area.r + items[original].meta.transform.r
       /\ items'[n].group = items[original].group
       /\ Len(items'[n].childItems) = Len(items[original].childItems)

\* C22: the copy buffer is the list of the items selected at the copy and no
\* other call changes it, so a paste clones the buffered items whatever is
\* selected by then; each clone is taken from the buffered item as it is at
\* the paste (area, children), and a later re-parenting among the originals
\* leaves every clone and the items below it as they were.
C22_BufferHoldsReferences ==
    [][/\ lastOp'.op = "copySelectedItems" => copyBuffer' = selectedItems
       /\ lastOp'.op # "copySelectedItems" => copyBuffer' = copyBuffer
       /\ lastOp'.op = "pasteSelectedItems"
             => LET pasted == {rootItems'[k] : k \in (Len(rootItems) + 1)..Len(rootItems')}
                IN /\ \A n \in pasted : \E i \in Range(copyBuffer) : isCloneOf(n, i)
                   /\ \A i \in Range(copyBuffer) :
                         Range(items[i].meta.ancestorIds) \cap Range(copyBuffer) = {}
                         => \E n \in pasted : isCloneOf(n, i)
       /\ (/\ lastOp'.op = "remountItemInsideOtherItem"
           /\ lastOp'.a \notin clones
           /\ lastOp'.b \notin clones
           /\ \A n \in clones : lastOp'.a \notin Range(items[n].childItems))
             => \A n \in clones : items'[n].area = items[n].area
                                  /\ items'[n].childItems = items[n].childItems
                                  /\ items'[n].group = items[n].group]_vars

(***************************************************************************)
(* Where a paste puts the clones                                           *)
(***************************************************************************)
PlaceDepth == 1     \* bound: reindexing calls after construction; no call is explored after the last

NextPlace ==
    \/ revision <= PlaceDepth /\ SelectItem
    \/ revision <= PlaceDepth /\ CopySelectedItems
    \/ revision <= PlaceDepth /\ RemountItemInsideOtherItem
    \/ revision <= PlaceDepth /\ PasteSelectedItems

SpecPlace == InitDeep /\ [][NextPlace]_vars

\* C23: each item that a paste appends to the root list has, after the paste,
\* the world position of its origin and the world rotation of the item it was
\* cloned from, at any depth of the original under rotated ancestors.
C23_PastedAtWorldPlacement ==
    [][lastOp'.op = "pasteSelectedItems"
       => LET originals == pastedOriginals(items, copyBuffer, {})
          IN \A k \in 1..(Len(rootItems') - Len(rootItems)) :
                LET clone == items'[rootItems'[Len(rootItems) + k]]
                    original == items[originals[k]]
                IN /\ worldPointOnItem(0, 0, clone) = worldPointOnItem(0, 0, original)
                   /\ worldRotation(clone) = worldRotation(original)]_vars

\* a paste has cloned an item that lies two levels deep under a rotated ancestor
C23_Witness ==
    /\ lastOp.op = "pasteSelectedItems"
    /\ Len(rootItems) >= 2
    /\ \E i \in Range(copyBuffer) :
          /\ Len(items[i].meta.ancestorIds) = 2
          /\ items[i].meta.transform.r # 0
          /\ items[rootItems[Len(rootItems)]].area.r = worldRotation(items[i])
          /\ items[rootItems[Len(rootItems)]].area.r # items[i].area.r

(***************************************************************************)
(* The bounding box of a list of items                                     *)
(***************************************************************************)
MaxBoxed == 2       \* bound: largest number of items handed to getBoundingBoxOfItems

\* items on one row, turned by any number of quarter turns, at the root or
\* inside a parent that is turned and away from the origin
BoxedItems ==
    {item \in GeoItems :
        /\ item.area.y = 0
        /\ item.meta.transform \in {zeroTransform, [x |-> MaxCoord, y |-> 0 - MaxCoord, r |-> 90]}}

\* the lists handed to getBoundingBoxOfItems: no list at all, or up to MaxBoxed items
BoxedLists ==
    {undefinedItems} \cup UNION {[1..n -> BoxedItems] : n \in 0..MaxBoxed}

GetBoundingBoxOfItems ==
    /\ geo.applied = "none"
    /\ \E list \in BoxedLists :
          geo' = [applied |-> "getBoundingBoxOfItems", list |-> list,
                  box |-> getBoundingBoxOfItems(list)]
    /\ UNCHANGED <<items, conns, rootItems, itemMap, itemArray, lookup, connectorsMap,
                   revision, selectedItems, selectedConnectors, copyBuffer, lastOp>>

NextBounds ==
    \/ GetBoundingBoxOfItems

SpecBounds == InitGeom /\ [][NextBounds]_vars

\* C24: the box that getBoundingBoxOfItems returns holds the four world
\* corners of every item of the list and is the smallest such box: each of its
\* four sides passes through a corner; for an empty or missing list it is
\* {0, 0, 0, 0}.
C24_BoxCoversCorners ==
    geo.applied = "getBoundingBoxOfItems"
    => IF geo.list = undefinedItems \/ geo.list = <<>>
       THEN geo.box = [x |-> 0, y |-> 0, w |-> 0, h |-> 0]
       ELSE LET points == Range(allCornerPoints(geo.list))
            IN /\ \A p \in points : /\ geo.box.x <= p.x /\ p.x <= geo.box.x + geo.box.w
                                     /\ geo.box.y <= p.y /\ p.y <= geo.box.y + geo.box.h
               /\ \E p \in points : p.x = geo.box.x
               /\ \E p \in points : p.x = geo.box.x + geo.box.w
               /\ \E p \in points : p.y = geo.box.y
               /\ \E p \in points : p.y = geo.box.y + geo.box.h

(***************************************************************************)
(* What a reindex leaves alone                                             *)
(***************************************************************************)
DefaultsDepth == 2  \* bound: reindexing calls after construction; no call is explored after the last

NextDefaults ==
    \/ revision <= DefaultsDepth /\ AddItemWithoutArea
    \/ revision <= DefaultsDepth /\ SelectItem
    \/ revision <= DefaultsDepth /\ BringSelectedItemsToFront
    \/ revision <= DefaultsDepth /\ freshGroup(State) <= MaxGroups /\ GroupSelectedItems
    \/ revision <= DefaultsDepth /\ ReindexItems

SpecDefaults == InitRouted /\ [][NextDefaults]_vars

\* C25: reindexItems leaves the root list and every childItems list as they
\* are, in membership and order, leaves area and group of every item and the
\* connector list of every item, and destination and reroutes of every
\* connector; on a tree whose items have their defaults it changes only meta
\* fields, the derived indexes and the revision.
C25_ReindexTouchesDerivedDataOnly ==
    [][lastOp'.op = "reindexItems"
       => /\ rootItems' = rootItems
          /\ Len(items') = Len(items)
          /\ \A i \in 1..Len(items) :
                /\ items'[i].childItems = items[i].childItems
                /\ items[i].area # undefinedArea => items'[i].area = items[i].area
                /\ items'[i].group = items[i].group
                /\ items'[i].connectors = items[i].connectors
                /\ items[i].area # undefinedArea
                      => [items'[i] EXCEPT !.meta = items[i].meta] = items[i]
          /\ Len(conns') = Len(conns)
          /\ \A c \in 1..Len(conns) :
                /\ conns'[c].itemId = conns[c].itemId
                /\ conns'[c].reroutes = conns[c].reroutes
                /\ [conns'[c] EXCEPT !.meta = conns[c].meta] = conns[c]
          /\ selectedItems' = selectedItems
          /\ selectedConnectors' = selectedConnectors
          /\ copyBuffer' = copyBuffer]_vars

\* a reindex of a tree that holds a connector with a waypoint, an item that
\* arrived without an area, and an item away from the default area
C25_Witness ==
    /\ lastOp.op = "reindexItems"
    /\ \E c \in treeConnectors : conns[c].reroutes # <<>>
    /\ \E i \in treeItems : items[i].area = [x |-> 0, y |-> 0, w |-> 0, h |-> 0, r |-> 0]
    /\ \E i \in treeItems : items[i].area.w > 0 /\ items[i].group # NoId

(***************************************************************************)
(* The forest under re-parenting                                           *)
(***************************************************************************)
\* C28: after any sequence of remountItemInsideOtherItem and
\* remountItemAfterOtherItem calls, with itemId equal to otherItemId among
\* them, every item of the loaded scheme is reached from the root list
\* exactly once, no item lies in its own childItems or in those of a
\* descendant, and getItems() returns as many items as before.
C28_ForestStaysWellFormed ==
    LET visited == visitedIds(visitItems(items, rootItems, zeroTransform, NoId, <<>>))
    IN /\ \A i \in 1..Len(items) : count(visited, i) = 1
       /\ \A i \in 1..Len(items) : i \notin descendants(items, i)
       /\ Len(itemArray) = Len(items)

(***************************************************************************)
(* The closest point search                                                *)
(***************************************************************************)
MaxLength == 8      \* bound: longest straight outline handed to the search, in units

\* the outlines: a single point, straight lines of every length up to
\* MaxLength, and the closed outline of a rectangle of 3 by 1
SearchPaths ==
    {<<[x |-> 0, y |-> 0]>>}
    \cup {<<[x |-> 0, y |-> 0], [x |-> l, y |-> 0]>> : l \in 0..MaxLength}
    \cup {<<[x |-> 0, y |-> 0], [x |-> 3, y |-> 0], [x |-> 3, y |-> 1],
            [x |-> 0, y |-> 1], [x |-> 0, y |-> 0]>>}

\* the targets in the local space of the item, in ticks
SearchTargets == {[x |-> x * Tick, y |-> y * Tick] : x \in {0 - 1, 2, 4}, y \in {0, 1}}

\* closestPointToSvgPath up to the loop
StartClosestPoint ==
    /\ geo.applied = "none"
    /\ \E path \in SearchPaths, localPoint \in SearchTargets :
          geo' = [applied |-> "closestPointToSvgPath", pc |-> "loop",
                  search |-> closestPointStart(path, localPoint)]
    /\ UNCHANGED <<items, conns, rootItems, itemMap, itemArray, lookup, connectorsMap,
                   revision, selectedItems, selectedConnectors, copyBuffer, lastOp>>

\* one iteration of the loop of line 515
ClosestPointStep ==
    /\ geo.applied = "closestPointToSvgPath"
    /\ geo.pc = "loop"
    /\ geo.search.segmentWidth > Tick
    /\ geo' = [geo EXCEPT !.search = closestPointStep(@)]
    /\ UNCHANGED <<items, conns, rootItems, itemMap, itemArray, lookup, connectorsMap,
                   revision, selectedItems, selectedConnectors, copyBuffer, lastOp>>

\* the loop test fails and the method returns closestPoint
ClosestPointReturn ==
    /\ geo.applied = "closestPointToSvgPath"
    /\ geo.pc = "loop"
    /\ ~ (geo.search.segmentWidth > Tick)
    /\ geo' = [geo EXCEPT !.pc = "done"]
    /\ UNCHANGED <<items, conns, rootItems, itemMap, itemArray, lookup, connectorsMap,
                   revision, selectedItems, selectedConnectors, copyBuffer, lastOp>>

NextSearch ==
    \/ StartClosestPoint
    \/ ClosestPointStep
    \/ ClosestPointReturn

\* the method runs on: a started call takes its next step
SpecSearch ==
    InitGeom /\ [][NextSearch]_vars /\ WF_vars(ClosestPointStep) /\ WF_vars(ClosestPointReturn)

RECURSIVE Pow2(_)
Pow2(n) == IF n = 0 THEN 1 ELSE 2 * Pow2(n - 1)

\* C29: the search ends for every path length L >= 0: segmentWidth starts at
\* L/2 and is halved by every iteration, an iteration runs only while
\* segmentWidth > 1, so the k-th iteration needs 2^k < L; with L <= 2 there is
\* no iteration and the start point of the path is returned.
C29_SearchTerminates ==
    /\ [](geo.applied = "closestPointToSvgPath"
           => LET search == geo.search
              IN /\ search.segmentWidth * Pow2(search.iterations + 1) = search.pathLength
                 /\ search.iterations >= 1
                       => Pow2(search.iterations) * Tick < search.pathLength
                 /\ geo.pc = "done" => search.segmentWidth <= Tick
                 /\ search.pathLength <= 2 * Tick
                       => /\ search.iterations = 0
                          /\ search.closestPoint = getPointAtLength(search.path, 0))
    /\ (geo.applied = "closestPointToSvgPath") ~> (geo.applied = "closestPointToSvgPath"
                                                   /\ geo.pc = "done")

\* a search over a path of more than four units has returned after two
\* iterations or more
C29_Witness ==
    /\ geo.applied = "closestPointToSvgPath"
    /\ geo.pc = "done"
    /\ geo.search.pathLength > 4 * Tick
    /\ geo.search.iterations >= 2

\* C30: whenever the loop test is made, leftSegment and rightSegment are
\* adjacent, each segmentWidth wide, and cover together the segment that won
\* the last comparison (the whole path before the first); they lie inside
\* [0, L], as do the two arc lengths sampled; closestPoint is the point of the
\* path at the sample that won, the right one on a tie.
C30_BisectionInvariant ==
    geo.applied = "closestPointToSvgPath"
    => LET search == geo.search
           left == search.leftSegment
           right == search.rightSegment
           distanceLeft == squaredDistance(search.localPoint,
                                           getPointAtLength(search.path, search.sampled[1]))
           distanceRight == squaredDistance(search.localPoint,
                                            getPointAtLength(search.path, search.sampled[2]))
       IN /\ right[1] = left[2]
          /\ left[2] - left[1] = search.segmentWidth
          /\ right[2] - right[1] = search.segmentWidth
          /\ <<left[1], right[2]>> = search.winner
          /\ 0 <= left[1]
          /\ right[2] <= search.pathLength
          /\ search.iterations = 0 => search.closestPoint = getPointAtLength(search.path, 0)
          /\ search.iterations > 0
                => /\ \A k \in 1..2 : 0 <= search.sampled[k]
                                       /\ search.sampled[k] <= search.pathLength
                   /\ search.won = IF distanceLeft < distanceRight
                                   THEN search.sampled[1] ELSE search.sampled[2]
                   /\ search.closestPoint = getPointAtLength(search.path, search.won)

\* the right sample has won a tie: both samples were as far from the target
C30_Witness ==
    /\ geo.applied = "closestPointToSvgPath"
    /\ geo.search.iterations >= 2
    /\ geo.search.won = geo.search.sampled[2]
    /\ squaredDistance(geo.search.localPoint,
                       getPointAtLength(geo.search.path, geo.search.sampled[1]))
          = squaredDistance(geo.search.localPoint,
                            getPointAtLength(geo.search.path, geo.search.sampled[2]))

(***************************************************************************)
(* The space of connector points                                           *)
(***************************************************************************)
\* the world point of the centre of the rectangle of an item
worldCentre(item) == worldPointOnItem(item.area.w \div 2, item.area.h \div 2, item)

\* C27: the points of meta.points are world points: for an end item without an
\* outline the edge point is the world centre of its rectangle,
\* worldPointOnItem(w/2, h/2, item), also for an item nested in a parent away
\* from the world origin.  Stated for the points that the reindex of the
\* constructor has built.
C27_EdgePointsAreWorldPoints ==
    \A c \in connectorsMap :
        (/\ conns[c].reroutes = <<>>
         /\ conns[c].itemId \in itemMap
         /\ conns[c].meta.sourceItemId \in itemMap
         /\ lastOp.op = "new")
        => conns[c].meta.points = <<worldCentre(items[conns[c].meta.sourceItemId]),
                                    worldCentre(items[conns[c].itemId])>>

(***************************************************************************)
(* Routing between outlined items                                          *)
(***************************************************************************)
\* a waypoint that the loaded scheme carries switched on
EnabledReroute == [x |-> 20, y |-> 30, disabled |-> FALSE]

\* the lists of up to MaxReroutes waypoints, switched on or off
LoadedReroutes ==
    UNION {[1..n -> {EnabledReroute, DisabledReroute}] : n \in 0..MaxReroutes}

\* loaded schemes of items of the shape "rect", 12 by 4, item 1 owning a
\* connector to the last item or to an id the scheme does not hold
InitOutlined ==
    \E parents \in Forests(SchemeSize), d \in {SchemeSize, MissingId}, rr \in LoadedReroutes :
        LET scheme == loadedScheme(parents,
                                   [i \in 1..SchemeSize |->
                                       [x |-> 40 * (i - 1), y |-> 0, w |-> 12, h |-> 4, r |-> 0]],
                                   <<[source |-> 1, itemId |-> d, reroutes |-> rr]>>)
        IN InitWith(newSchemeContainer(
               [scheme EXCEPT !.items = [i \in 1..Len(scheme.items) |->
                                            [scheme.items[i] EXCEPT !.shape = "rect"]]]))

OutlineDepth == 1   \* bound: reindexing calls after construction; no call is explored after the last

NextOutline ==
    \/ revision <= OutlineDepth /\ AddReroute
    \/ revision <= OutlineDepth /\ SelectItem
    \/ revision <= OutlineDepth /\ SelectConnector
    \/ revision <= OutlineDepth /\ ReindexItems

SpecOutline == InitOutlined /\ [][NextOutline]_vars

\* the waypoints of a list that are switched on, as they are
switchedOn(reroutes) == SelectSeq(reroutes, LAMBDA p : ~ p.disabled)

\* C26: for a connector with waypoints of which at least one is switched on,
\* meta.points is the edge point of the source aimed at the first waypoint
\* that is switched on, then every waypoint that is switched on, in order,
\* then, if the destination resolves, the edge point of the destination aimed
\* at the last waypoint that is switched on; a connector without waypoints
\* whose destination resolves has two points.
C26_AimsAtEnabledReroutes ==
    \A c \in connectorsMap :
        LET reroutes == conns[c].reroutes
            enabled == switchedOn(reroutes)
            source == items[conns[c].meta.sourceItemId]
            resolves == conns[c].itemId \in itemMap
        IN /\ (reroutes # <<>> /\ enabled # <<>>)
                => conns[c].meta.points =
                      <<findEdgePoint(source, enabled[1])>>
                      \o [k \in 1..Len(enabled) |-> [x |-> enabled[k].x, y |-> enabled[k].y]]
                      \o (IF resolves
                          THEN <<findEdgePoint(items[conns[c].itemId], enabled[Len(enabled)])>>
                          ELSE <<>>)
           /\ (reroutes = <<>> /\ resolves) => Len(conns[c].meta.points) = 2

(***************************************************************************)
(* The two passes of a reindex                                             *)
(***************************************************************************)
\* C31: right after construction or a reindexItems call, every connector owned
\* by an item of the tree whose destination is an item of the tree, wherever
\* that item comes in the traversal, is registered in the connector map, has
\* its owner among the sources recorded for the destination, and carries the
\* points that the router computes from the transforms the items have once
\* the whole tree is indexed; these points are not empty.
C31_ConnectorsBuiltAfterItems ==
    lastOp.op \in {"new", "reindexItems"} =>
        \A c \in treeConnectors :
            conns[c].itemId \in treeItems =>
                /\ c \in connectorsMap
                /\ conns[c].itemId \in DOMAIN lookup
                /\ Contains(lookup[conns[c].itemId], ownerOf(c))
                /\ conns[c].meta.sourceItemId = ownerOf(c)
                /\ conns[c].meta.points # <<>>
                /\ conns[c].meta.points =
                      connectorPoints(State, ownerOf(c), conns[c].itemId, conns[c].reroutes)

\* a reindexItems call on a scheme whose connector leads from an item to one
\* of its descendants, visited after it
C31_Witness ==
    /\ lastOp.op = "reindexItems"
    /\ \E c \in treeConnectors :
          /\ conns[c].itemId \in treeItems
          /\ Contains(items[conns[c].itemId].meta.ancestorIds, ownerOf(c))
          /\ IndexOf(itemArray, ownerOf(c)) < IndexOf(itemArray, conns[c].itemId)
          /\ Len(conns[c].meta.points) >= 2

(***************************************************************************)
(* Indexes after a structural change                                       *)
(***************************************************************************)
\* C32: right after addItem, deleteSelectedItemsAndConnectors,
\* remountItemInsideOtherItem, remountItemAfterOtherItem, pasteSelectedItems,
\* bringSelectedItemsToFront or bringSelectedItemsToBack, getItems() is the
\* pre-order flattening of the tree, findItemById resolves exactly the items of
\* the tree, and meta.parentId and meta.ancestorIds of every item of the tree
\* are those of the place it has in the tree.
C32_IndexesFreshAfterStructuralChange ==
    lastOp.op \in {"addItem", "deleteSelectedItemsAndConnectors",
                   "remountItemInsideOtherItem", "remountItemAfterOtherItem",
                   "pasteSelectedItems", "bringSelectedItemsToFront",
                   "bringSelectedItemsToBack"} =>
        /\ itemArray = visitedIds(visitItems(items, rootItems, zeroTransform, NoId, <<>>))
        /\ itemMap = reachableItems
        /\ \A i \in reachableItems :
              /\ items[i].meta.parentId = holderOf(i)
              /\ items[i].meta.ancestorIds =
                    (IF holderOf(i) = NoId THEN <<>>
                     ELSE Append(items[holderOf(i)].meta.ancestorIds, holderOf(i)))

(***************************************************************************)
(* The order of the selection                                              *)
(***************************************************************************)
\* C33: in every reachable state selectedItems holds no item twice and is
\* ordered by non-decreasing depth of its items in the tree, the depth being
\* the number of ancestors the last reindex recorded for the item.
C33_SelectionSortedWithoutDuplicates ==
    /\ \A k \in 1..Len(selectedItems), l \in 1..Len(selectedItems) :
          k # l => selectedItems[k] # selectedItems[l]
    /\ \A k \in 1..(Len(selectedItems) - 1) :
          Len(items[selectedItems[k]].meta.ancestorIds)
             <= Len(items[selectedItems[k + 1]].meta.ancestorIds)

(***************************************************************************)
(* What the selection refers to                                            *)
(***************************************************************************)
\* C34: in every reachable state every element of selectedItems is an item
\* of the tree and every element of selectedConnectors is a connector owned
\* by an item of the tree; right after deleteSelectedItemsAndConnectors both
\* selection lists are empty.
C34_SelectionRefersToTree ==
    /\ Range(selectedItems) \subseteq treeItems
    /\ Range(selectedConnectors) \subseteq treeConnectors
    /\ lastOp.op = "deleteSelectedItemsAndConnectors" =>
          selectedItems = <<>> /\ selectedConnectors = <<>>

(***************************************************************************)
(* A waypoint added to a routed connector                                  *)
(***************************************************************************)
\* a waypoint that the loaded scheme carries switched on, close to the line
\* from (0,0) to (100,0)
NearReroute == [x |-> 20, y |-> 2, disabled |-> FALSE]

\* loaded schemes whose items are centred at (0,0) and (100,0), item 1 owning
\* a connector to the last item that has one or two waypoints, each switched
\* on or off
InitInsert ==
    \E parents \in Forests(SchemeSize), n \in 1..2 :
        \E rr \in [1..n -> {NearReroute, DisabledReroute}] :
            InitWith(newSchemeContainer(
                loadedScheme(parents,
                             [i \in 1..SchemeSize |->
                                 [x |-> 100 * (i - 1) - 10, y |-> 0 - 5, w |-> 20, h |-> 10, r |-> 0]],
                             <<[source |-> 1, itemId |-> SchemeSize, reroutes |-> rr]>>)))

InsertDepth == 1    \* bound: reindexing calls after construction; no call is explored after the last

NextInsert ==
    \/ revision <= InsertDepth /\ AddReroute
    \/ revision <= InsertDepth /\ SelectItem
    \/ revision <= InsertDepth /\ SelectConnector

SpecInsert == InitInsert /\ [][NextInsert]_vars

\* C35: addReroute on a connector that has reroutes, with the segment index id
\* that findMatchingRerouteSegment returned, gives meta.points one more point:
\* the new waypoint, directly after the first point of segment id of the old
\* meta.points and directly before its second point.
C35_WaypointSplitsChosenSegment ==
    [][\A c \in connectorsMap :
          (/\ lastOp'.op = "addReroute"
           /\ lastOp'.a = c
           /\ conns[c].reroutes # <<>>
           /\ Len(conns[c].meta.points) >= 2)
          => LET id == lastOp'.b
                 old == conns[c].meta.points
                 new == conns'[c].meta.points
             IN /\ Len(new) = Len(old) + 1
                /\ new[id + 1] = old[id + 1]
                /\ \E p \in ReroutePoints : new[id + 2] = [x |-> p.x, y |-> p.y]
                /\ new[id + 3] = old[id + 2]]_vars

(***************************************************************************)
(* A waypoint added to a connector without a source                        *)
(***************************************************************************)
StaleDepth == 2     \* bound: reindexing calls after construction; no call is explored after the last

NextStale ==
    \/ revision <= StaleDepth /\ SelectItem
    \/ revision <= StaleDepth /\ SelectConnector
    \/ revision <= StaleDepth /\ DeleteSelectedItemsAndConnectors
    \/ revision <= StaleDepth /\ AddRerouteToSelectedConnector

SpecStale == InitRouted /\ [][NextStale]_vars

\* C36: addReroute on a connector whose meta.sourceItemId does not resolve
\* leaves connector.reroutes and connector.meta.points as they were.
C36_RerouteWithoutSourceIsNoOp ==
    [][\A c \in 1..Len(conns) :
          (/\ lastOp'.op = "addReroute"
           /\ lastOp'.a = c
           /\ conns[c].meta.sourceItemId \notin itemMap)
          => /\ conns'[c].reroutes = conns[c].reroutes
             /\ conns'[c].meta.points = conns[c].meta.points]_vars

(***************************************************************************)
(* Connectors of a scheme that started without any                         *)
(***************************************************************************)
MaxLinks == 2       \* bound: connector objects created by connectItems
LinkDepth == 1      \* bound: calls that change the tree; connecting and selecting are explored after the last

NextLink ==
    \/ revision <= LinkDepth + 1 /\ Len(conns) < MaxLinks /\ ConnectItems
    \/ revision <= LinkDepth + 1 /\ SelectItem
    \/ revision <= LinkDepth /\ CopySelectedItems
    \/ revision <= LinkDepth /\ RemountItemInsideOtherItem
    \/ revision <= LinkDepth /\ PasteSelectedItems
    \/ revision <= LinkDepth /\ DeleteSelectedItemsAndConnectors

SpecLink == InitForest /\ [][NextLink]_vars

\* C37: in every state reached from a scheme without connectors by
\* connectItems, remount, copy, paste and delete, no item of the tree owns a
\* connector to itself, no item of the tree owns two connectors to the same
\* destination, connectItems(S, D) for an item S of the tree that already owns
\* a connector to D changes nothing, and findConnectorById resolves every
\* connector owned by an item of the tree.
C37_ConnectorsWellFormed ==
    /\ \A i \in treeItems :
          /\ \A k \in 1..Len(items[i].connectors) :
                conns[items[i].connectors[k]].itemId # i
          /\ \A k \in 1..Len(items[i].connectors), l \in 1..Len(items[i].connectors) :
                k # l => conns[items[i].connectors[k]].itemId
                            # conns[items[i].connectors[l]].itemId
          /\ \A k \in 1..Len(items[i].connectors) :
                connectItems(State, i, conns[items[i].connectors[k]].itemId) = State
    /\ \A c \in treeConnectors : findConnectorById(State, c) = c

\* connectItems after a change of the tree gave an item of the tree, which
\* owned a connector already, a second connector, to another destination
C37_Witness ==
    /\ lastOp.op = "connectItems"
    /\ revision = 2
    /\ \E i \in treeItems :
          /\ lastOp.a = i
          /\ Len(items[i].connectors) = 2
          /\ conns[items[i].connectors[2]].itemId = lastOp.b
          /\ Range(items[i].connectors) \subseteq connectorsMap

(***************************************************************************)
(* Partial reindex                                                         *)
(***************************************************************************)
PartialDepth == 2   \* bound: reindexing calls after construction; no call is explored after the last

NextPartial ==
    \/ revision <= PartialDepth /\ EditItemArea
    \/ revision <= PartialDepth /\ UpdateChildTransforms
    \/ revision <= PartialDepth /\ ReindexItems

SpecPartial == InitDeep /\ [][NextPartial]_vars

ChainLength == 9    \* bound: items of the loaded chain; item i + 1 is the only child of item i

\* a loaded chain of items, the last ChainLength - 1 of them nested, whose
\* root item is stored collapsed or not
InitChain ==
    \E rootCollapsed \in BOOLEAN :
        LET scheme == loadedScheme([i \in 1..ChainLength |-> i - 1],
                                   [i \in 1..ChainLength |-> Area(10, 10, 0)], <<>>)
        IN InitWith(newSchemeContainer(
               [scheme EXCEPT !.items[1].meta.collapsed = rootCollapsed]))

CollapseDepth == 1  \* bound: reindexing calls after construction; no call is explored after the last

NextCollapse ==
    \/ revision <= CollapseDepth /\ ToggleCollapsed
    \/ revision <= CollapseDepth /\ ReindexItems

SpecCollapse == InitChain /\ [][NextCollapse]_vars

\* C39: right after construction or a reindexItems call every root item has
\* collapseBitMask 0, and the collapseBitMask of every nested item is not 0
\* exactly when one of its ancestors or more has meta.collapsed = true.
C39_MaskTellsCollapsedAncestor ==
    lastOp.op \in {"new", "reindexItems"} =>
        \A i \in treeItems :
            /\ items[i].meta.parentId = NoId => items[i].meta.collapseBitMask = 0
            /\ items[i].meta.parentId # NoId =>
                  (items[i].meta.collapseBitMask # 0
                     <=> \E a \in Range(items[i].meta.ancestorIds) : items[a].meta.collapsed)

(***************************************************************************)
(* The Size and Scale functions of user events                             *)
(***************************************************************************)
\* Times are in milliseconds, args.duration in whole seconds.  A fraction of
\* the animation clock and a scale are counted in thousandths: One is 1.0.
Millis == 1000
One == 1000

Min(a, b) == IF a < b THEN a ELSE b

\* convertTime(t, movement) for the movement 'linear'
convertTime(t) == t

\* from * (1 - t) + to * t
interpolate(from, to, t) == (from * (One - t) + to * t) \div One

\* Math.min(1.0, elapsedTime / (duration * 1000)); a division by 0 gives Infinity
progress(elapsedTime, duration) ==
    IF duration = 0 THEN One ELSE Min(One, (elapsedTime * One) \div (duration * Millis))

\* One call of execute(item, args, schemeContainer, userEventBus,
\* resultCallback) and what follows from it: the arguments, the animation it
\* handed to the registry with its fields, area.sx and area.sy of the item,
\* and the number of times resultCallback was invoked.
newCall(fn, item, animated, inBackground, duration) ==
    [applied |-> "execute", fn |-> fn, item |-> item, animated |-> animated,
     inBackground |-> inBackground, duration |-> duration,
     height |-> 50, width |-> 60, scaleX |-> 1500, scaleY |-> 500,
     animation |-> "none", elapsedTime |-> 0, initial |-> 0,
     originalArea |-> [sx |-> One, sy |-> One], area |-> [sx |-> One, sy |-> One],
     proceed |-> "none", callbacks |-> 0]

\* resultCallback()
resultCallback(call) == [call EXCEPT !.callbacks = @ + 1]

\* the update callback of Size (Height)
heightUpdate(s, call, t) ==
    updateChildTransforms(
        [s EXCEPT !.items[call.item].area.h = interpolate(call.initial, call.height, t)],
        call.item)

\* the update callback of Size (Width)
widthUpdate(s, call, t) ==
    updateChildTransforms(
        [s EXCEPT !.items[call.item].area.w = interpolate(call.initial, call.width, t)],
        call.item)

\* execute of Size (Height)
heightExecute(s, call) ==
    IF call.item # NoId
    THEN IF call.animated
         THEN LET playing == [call EXCEPT !.initial = s.items[call.item].area.h,
                                          !.animation = "registered"]
              IN [s |-> s,
                  call |-> IF call.inBackground THEN resultCallback(playing) ELSE playing]
         ELSE [s |-> updateChildTransforms(
                         [s EXCEPT !.items[call.item].area.h = call.height], call.item),
               call |-> resultCallback(call)]
    ELSE [s |-> s, call |-> resultCallback(call)]

\* execute of Size (Width)
widthExecute(s, call) ==
    IF call.item # NoId
    THEN IF call.animated
         THEN LET playing == [call EXCEPT !.initial = s.items[call.item].area.w,
                                          !.animation = "registered"]
              IN [s |-> s,
                  call |-> IF call.inBackground THEN resultCallback(playing) ELSE playing]
         ELSE [s |-> updateChildTransforms(
                         [s EXCEPT !.items[call.item].area.w = call.width], call.item),
               call |-> resultCallback(call)]
    ELSE [s |-> s, call |-> resultCallback(call)]

\* new ScaleAnimation(item, args, schemeContainer, resultCallback)
newScaleAnimation(call) ==
    [call EXCEPT !.elapsedTime = 0, !.originalArea = call.area, !.animation = "registered"]

\* an execute of Scale that invokes resultCallback whether the animation
\* plays in the background or not
scaleExecuteAlwaysCallsBack(s, call) ==
    IF call.item # NoId
    THEN IF call.animated
         THEN [s |-> s, call |-> resultCallback(newScaleAnimation(call))]
         ELSE [s |-> updateChildTransforms(s, call.item),
               call |-> resultCallback(
                            [call EXCEPT !.area = [sx |-> call.scaleX, sy |-> call.scaleY]])]
    ELSE [s |-> s, call |-> resultCallback(call)]

\* execute of Scale
scaleExecute(s, call) ==
    IF call.item # NoId
    THEN IF call.animated
         THEN [s |-> s,
               call |-> IF call.inBackground THEN resultCallback(newScaleAnimation(call))
                        ELSE newScaleAnimation(call)]
         ELSE [s |-> updateChildTransforms(s, call.item),
               call |-> resultCallback(
                            [call EXCEPT !.area = [sx |-> call.scaleX, sy |-> call.scaleY]])]
    ELSE [s |-> s, call |-> resultCallback(call)]

\* the clock of an animation after dt more milliseconds: the elapsed time,
\* the fraction t, and the converted fraction, which is 1.0 at the end
clockAfter(call, dt) ==
    LET elapsedTime == call.elapsedTime + dt
        t == progress(elapsedTime, call.duration)
    IN [elapsedTime |-> elapsedTime, proceed |-> ~ (t >= One),
        convertedT |-> IF t >= One THEN One ELSE convertTime(t)]

\* ScaleAnimation.play(dt) with the clock of the tick; proceed is what it returns
scaleAnimationTick(s, call, clock) ==
    [s |-> updateChildTransforms(s, call.item),
     call |-> [call EXCEPT
                  !.elapsedTime = clock.elapsedTime,
                  !.area = [sx |-> interpolate(call.originalArea.sx, call.scaleX,
                                               clock.convertedT),
                            sy |-> interpolate(call.originalArea.sy, call.scaleY,
                                               clock.convertedT)],
                  !.proceed = IF clock.proceed THEN "true" ELSE "false"]]

\* ScaleAnimation.play(dt)
scaleAnimationPlay(s, call, dt) ==
    IF call.animated /\ call.duration > 0
    THEN scaleAnimationTick(s, call, clockAfter(call, dt))
    ELSE [s |-> updateChildTransforms(s, call.item),
          call |-> [call EXCEPT !.area = [sx |-> call.scaleX, sy |-> call.scaleY],
                                !.proceed = "false"]]

\* ValueAnimation.play(dt) with the clock of the tick: update(t) of the
\* function that made the animation is called
valueAnimationTick(s, call, clock) ==
    [s |-> IF call.fn = "Size (Height)" THEN heightUpdate(s, call, clock.convertedT)
           ELSE widthUpdate(s, call, clock.convertedT),
     call |-> [call EXCEPT !.elapsedTime = clock.elapsedTime,
                           !.proceed = IF clock.proceed THEN "true" ELSE "false"]]

\* ValueAnimation.play(dt)
valueAnimationPlay(s, call, dt) == valueAnimationTick(s, call, clockAfter(call, dt))

\* destroy of the three animations: ScaleAnimation.destroy() and the destroy
\* callbacks of Size (Height) and Size (Width)
destroy(call) ==
    [(IF ~ call.inBackground THEN resultCallback(call) ELSE call)
     EXCEPT !.animation = "destroyed"]

\* the durations of the animations, in seconds
Durations == {0, 1, 2}

\* the milliseconds between two frames
FrameTimes == {500, 1000}

Functions == {"Size (Height)", "Size (Width)", "Scale"}

\* a behaviour invokes one of the three functions on an item of the scheme or
\* on an item that is missing
ExecuteFunction ==
    /\ geo.applied = "none"
    /\ \E fn \in Functions, item \in itemMap \cup {NoId}, animated \in BOOLEAN,
          inBackground \in BOOLEAN, duration \in Durations :
          LET call == newCall(fn, item, animated, inBackground, duration)
              result == CASE fn = "Size (Height)" -> heightExecute(State, call)
                          [] fn = "Size (Width)" -> widthExecute(State, call)
                          [] fn = "Scale" -> scaleExecute(State, call)
          IN /\ geo' = result.call
             /\ items' = result.s.items
    /\ UNCHANGED <<conns, rootItems, itemMap, itemArray, lookup, connectorsMap,
                   revision, selectedItems, selectedConnectors, copyBuffer, lastOp>>

\* the animation registry plays a frame of the animation it holds
PlayAnimation ==
    /\ geo.applied = "execute"
    /\ geo.animation = "registered"
    /\ geo.proceed # "false"
    /\ \E dt \in FrameTimes :
          LET result == IF geo.fn = "Scale" THEN scaleAnimationPlay(State, geo, dt)
                        ELSE valueAnimationPlay(State, geo, dt)
          IN /\ geo' = result.call
             /\ items' = result.s.items
    /\ UNCHANGED <<conns, rootItems, itemMap, itemArray, lookup, connectorsMap,
                   revision, selectedItems, selectedConnectors, copyBuffer, lastOp>>

\* the animation registry destroys the animation whose play returned false
DestroyAnimation ==
    /\ geo.applied = "execute"
    /\ geo.animation = "registered"
    /\ geo.proceed = "false"
    /\ geo' = destroy(geo)
    /\ UNCHANGED <<items, conns, rootItems, itemMap, itemArray, lookup, connectorsMap,
                   revision, selectedItems, selectedConnectors, copyBuffer, lastOp>>

NextAnimate ==
    \/ ExecuteFunction
    \/ PlayAnimation
    \/ DestroyAnimation

\* the registry keeps playing frames and destroys what has finished
SpecAnimate ==
    InitForest /\ [][NextAnimate]_vars /\ WF_vars(PlayAnimation) /\ WF_vars(DestroyAnimation)

====
